---------------------------- MODULE Spec2Model ----------------------------
(***************************************************************************)
(* A model of the Azure DevOps pull-request KPI generator:                 *)
(*   - ado_client.AdoClient._get_json        (retrying GET, SpecGetJson)   *)
(*   - ado_client.AdoClient.list_pull_requests (paging,     SpecListPR)    *)
(*   - kpi.compute_first_response_time   (dwell time, SpecFirstResponse)   *)
(*   - kpi.collect_kpi_samples, kpi.compute_completion_time (SpecCollect)  *)
(* Optional Python values are records [has, v]; has = FALSE is None.       *)
(* Strings that the code parses are sequences of one-character strings.    *)
(***************************************************************************)
EXTENDS Integers, Sequences, FiniteSets, TLC

VARIABLES
    \* ---- AdoClient._get_json (one call) ----
    gj_pc,          \* "idle" | "loop" | "returned" | "raised"
    attempt,        \* the loop variable of `for attempt in range(1, 6)`
    response,       \* the local `response`: the last response received
    last_error,     \* the local `last_error`: the last transport exception
    sleeps,         \* the arguments of the time.sleep calls of this call, in order
    get_count,      \* the number of self._session.get calls of this call
    gj_result,      \* what the call returned or raised
    trace,          \* per attempt, what the transport answered (observation)
    \* ---- AdoClient.list_pull_requests (one call) ----
    lp_pc,          \* "idle" | "page" | "fetch" | "returned" | "raised"
    min_time,       \* the argument min_time (optional datetime)
    max_time,       \* the argument max_time (optional datetime)
    skip,           \* the local `skip`
    pull_requests,  \* the local list `pull_requests`
    calls,          \* the params of every _get_json call, in order
    pages,          \* the item list of every page received, in order
    lp_result,      \* what the call returned or raised
    \* ---- kpi.compute_first_response_time (one call) ----
    frt_pc,             \* "idle" | "start" | "threads" | "returned" | "raised"
    pr,                 \* the argument pr
    threads,            \* the local `threads`, as list_threads returned it
    thread_index,       \* the position of `for thread in threads`
    first_response_at,  \* the local `first_response_at`
    client_calls,       \* the client calls made, in order
    seen,               \* the set of all comments the client has returned
    frt_result,         \* what the call returned or raised
    \* ---- kpi.collect_kpi_samples (one call) ----
    ck_pc,                  \* "idle" | "loop" | "dwell" | "completion" | "returned" | "raised"
    prs,                    \* the argument prs
    pr_index,               \* the position of `for pr in prs`
    dwell_times,            \* the local list `dwell_times`
    completion_times,       \* the local list `completion_times`
    prs_without_response,   \* the local counter
    prs_without_completion, \* the local counter
    dwell_results,          \* what compute_first_response_time returned, per PR
    completion_results,     \* what compute_completion_time returned, per PR
    ck_result,              \* what the call returned or raised
    \* ---- stats: one call of one of its four functions ----
    st_pc,            \* "ready" | the name of the function that was called
    sorted_values,    \* calculate_percentile: the argument sorted_values
    cp_p,             \* calculate_percentile: the argument p
    percentile,       \* calculate_percentile: what it returned or raised
    cs_samples,       \* compute_statistics: the argument samples
    statistics,       \* compute_statistics: the dict it returned
    fd_seconds,       \* format_duration: the argument seconds
    formatted,        \* format_duration: the text it returned
    repo_name,        \* generate_report: the argument repo_name
    report_dwell,     \* generate_report: the argument dwell_times
    report_completion,\* generate_report: the argument completion_times
    report,           \* generate_report: the lines of the text it returned
    \* ---- ado_client.AdoClient.resolve_repo_name_to_id (one call) ----
    rn_pc,             \* "idle" | "start" | "search" | "returned" | "raised"
    rn_repo_name,      \* the argument repo_name
    repositories,      \* what list_repositories returned
    repository_index,  \* the position of `for repository in ...`
    rn_fetches,        \* the number of _get_json("git/repositories") calls
    rn_result,         \* what the call returned or raised
    \* ---- main.AdoClient.resolve_repo_names_to_ids and its use in main ----
    rb_pc,             \* "idle" | "start" | "names" | "returned" | "reported" | "raised"
    repo_names,        \* the argument repo_names (args.repo_name)
    repos_by_name,     \* the local dict repos_by_name
    name_index,        \* the position of `for name in repo_names`
    resolved,          \* the local dict `resolved`, then resolved_repo_ids
    unresolved,        \* main's list `unresolved`
    rb_fetches,        \* the number of list_repositories calls
    rb_listing,        \* what list_repositories returned (observation)
    \* ---- main.AdoClient._get (one call) ----
    mg_pc,             \* "idle" | "loop" | "returned" | "raised"
    mg_attempt,        \* the loop variable of `for attempt in range(1, 6)`
    mg_response,       \* the local `response`: the last response received
    mg_requests,       \* the number of session.get calls made
    mg_sleeps,         \* the arguments of the time.sleep calls made, in order
    mg_result,         \* "none" | "returned" | the exception that left the call
    \* ---- ado_client.AdoClient.list_thread_comments (decoding) and ----
    \* ---- main.compute_repo_kpis (one call)                        ----
    kp_pc,             \* "idle" | "ready" | "list_thread_comments" | "loop" | "returned" | "raised"
    raw_comments,      \* list_thread_comments: payload["value"]
    comments_listed,   \* list_thread_comments: the list it returned
    kp_pull_requests,  \* compute_repo_kpis: what list_pull_requests returned
    kp_index,          \* compute_repo_kpis: the position of `for pull_request in ...`
    kp_thread_comments,\* compute_repo_kpis: the threads, with their comments, that the
                       \* client gave for the pull request of the last pass
    kp_result,         \* compute_repo_kpis: dwell_seconds and completion_seconds
    \* ---- main.main (one run) ----
    mn_pc,             \* "idle" | "start" | "select" | "repos" | "exited" | "escaped"
    args,              \* the parsed arguments: pat, repo_id, repo_name
    mn_repositories,   \* the repositories of the project, as the service lists them
    resolved_repo_ids, \* the local dict resolved_repo_ids
    repo_ids,          \* the local set repo_ids
    processed,         \* the repo_id values of the for loop's passes, in order
    all_dwell,         \* the local list all_dwell
    all_completion,    \* the local list all_completion
    exit_code,         \* what main returned, if it returned
    stderr,            \* the lines written to sys.stderr
    escaped,           \* the exception that left main, or "none"
    mn_requests        \* the number of client calls made

gjVars == <<gj_pc, attempt, response, last_error, sleeps, get_count, gj_result,
            trace>>

lpVars == <<lp_pc, min_time, max_time, skip, pull_requests, calls, pages,
            lp_result>>

frtVars == <<frt_pc, pr, threads, thread_index, first_response_at,
             client_calls, seen, frt_result>>

ckVars == <<ck_pc, prs, pr_index, dwell_times, completion_times,
            prs_without_response, prs_without_completion, dwell_results,
            completion_results, ck_result>>

\* The state of the operations that the client and the per-PR computation
\* never touch.
stVars == <<st_pc, sorted_values, cp_p, percentile, cs_samples, statistics,
            fd_seconds, formatted, repo_name, report_dwell, report_completion, report>>

rnVars == <<rn_pc, rn_repo_name, repositories, repository_index, rn_fetches,
            rn_result>>

rbVars == <<rb_pc, repo_names, repos_by_name, name_index, resolved, unresolved,
            rb_fetches, rb_listing>>

mgVars == <<mg_pc, mg_attempt, mg_response, mg_requests, mg_sleeps, mg_result>>

kpVars == <<kp_pc, raw_comments, comments_listed, kp_pull_requests, kp_index,
            kp_thread_comments, kp_result>>

mnVars == <<mn_pc, args, mn_repositories, resolved_repo_ids, repo_ids, processed,
            all_dwell, all_completion, exit_code, stderr, escaped, mn_requests>>

mainVars == <<mgVars, kpVars, mnVars>>

restVars == <<ckVars, stVars, rnVars, rbVars, mainVars>>

vars == <<gjVars, lpVars, frtVars, restVars>>

-----------------------------------------------------------------------------
(* Program constants                                                       *)

MAX_RETRIES == 5
MAX_BACKOFF_SECONDS == 30
PULL_REQUEST_PAGE_SIZE == 100

-----------------------------------------------------------------------------
(* Bounds of the model                                                     *)

\* The server sends at most this many full pages to one listing.
MaxFullPages == 2

\* A pull request has at most this many threads, a thread this many comments.
MaxThreads == 2
MaxComments == 2

-----------------------------------------------------------------------------
(* Small helpers                                                           *)

Min(a, b) == IF a <= b THEN a ELSE b
Max(a, b) == IF a >= b THEN a ELSE b

RECURSIVE Pow2(_)
Pow2(n) == IF n <= 0 THEN 1 ELSE 2 * Pow2(n - 1)

Last(s) == s[Len(s)]

-----------------------------------------------------------------------------
(* int(text) of Python, for the texts a Retry-After header can hold:       *)
(* surrounding blanks are stripped, one optional sign, then one or more    *)
(* decimal digits; anything else is a ValueError (ok = FALSE).             *)

Digits == {"0", "1", "2", "3", "4", "5", "6", "7", "8", "9"}

DigitVal(c) ==
    CASE c = "0" -> 0 [] c = "1" -> 1 [] c = "2" -> 2 [] c = "3" -> 3
      [] c = "4" -> 4 [] c = "5" -> 5 [] c = "6" -> 6 [] c = "7" -> 7
      [] c = "8" -> 8 [] OTHER -> 9

RECURSIVE LStrip(_)
LStrip(s) == IF s # <<>> /\ Head(s) = " " THEN LStrip(Tail(s)) ELSE s

RECURSIVE RStrip(_)
RStrip(s) ==
    IF s # <<>> /\ s[Len(s)] = " " THEN RStrip(SubSeq(s, 1, Len(s) - 1)) ELSE s

RECURSIVE DigitsValue(_, _)
DigitsValue(s, acc) ==
    IF s = <<>> THEN acc ELSE DigitsValue(Tail(s), 10 * acc + DigitVal(Head(s)))

ParseInt(text) ==
    LET t    == RStrip(LStrip(text))
        sign == IF t # <<>> /\ Head(t) \in {"+", "-"} THEN Head(t) ELSE ""
        body == IF sign = "" THEN t ELSE Tail(t)
        ok   == body # <<>> /\ \A i \in 1..Len(body) : body[i] \in Digits
    IN  IF ok
        THEN [ok |-> TRUE,
              val |-> IF sign = "-" THEN 0 - DigitsValue(body, 0)
                      ELSE DigitsValue(body, 0)]
        ELSE [ok |-> FALSE, val |-> 0]

-----------------------------------------------------------------------------
(* The transport: what self._session.get can answer                        *)

NoHeader == [has |-> FALSE, v |-> <<>>]
Header(text) == [has |-> TRUE, v |-> text]

\* Retry-After header values: absent, empty, not an integer, and integers
\* below, inside and above the range 1..30.
RetryAfterHeaders ==
    {NoHeader, Header(<<>>), Header(<<"s", "o", "o", "n">>),
     Header(<<"0">>), Header(<<"-", "5">>), Header(<<" ", "3">>),
     Header(<<"4", "5">>)}

NoItems == <<>>
JsonObject(hasValue, items) ==
    [kind |-> "object", hasValue |-> hasValue, value |-> items]
JsonArray == [kind |-> "array", hasValue |-> FALSE, value |-> NoItems]
JsonInvalid == [kind |-> "invalid", hasValue |-> FALSE, value |-> NoItems]

\* Bodies of the _get_json specification: two distinct JSON objects, a JSON
\* array and a body that is not JSON.
GetJsonBodies ==
    {JsonObject(TRUE, NoItems), JsonObject(FALSE, NoItems), JsonArray, JsonInvalid}

HttpResponse(status, header, text, json) ==
    [kind |-> "response", status |-> status, retryAfter |-> header,
     text |-> text, json |-> json, exc |-> "None"]

TransportError(exc) ==
    [kind |-> "exception", status |-> 0, retryAfter |-> NoHeader,
     text |-> "", json |-> JsonInvalid, exc |-> exc]

NoResponse == HttpResponse(0, NoHeader, "", JsonInvalid)

RetryableStatuses == {429, 500, 599}
OtherStatuses == {100, 200, 204, 302, 399, 400, 404, 428, 430, 499}
Exceptions == {"ConnectionError", "Timeout"}

GetJsonOutcomes ==
    {HttpResponse(s, h, "busy", JsonObject(TRUE, NoItems)) :
        s \in RetryableStatuses, h \in RetryAfterHeaders}
    \cup {HttpResponse(s, NoHeader, "body", j) :
        s \in OtherStatuses, j \in GetJsonBodies}
    \cup {TransportError(e) : e \in Exceptions}

-----------------------------------------------------------------------------
(* AdoClient._get_json                                                     *)

\* Every 4xx is retried, not only 429.
IsRetryable_All4xx(status_code) == 400 <= status_code /\ status_code <= 599

IsRetryable(status_code) ==
    status_code = 429 \/ (500 <= status_code /\ status_code <= 599)

\* The retry test never fails.
CanRetry_Always(a) == TRUE

\* Off by one: a retry is still attempted on the last attempt.
CanRetry_OffByOne(a) == a <= MAX_RETRIES

CanRetry(a) == a < MAX_RETRIES

\* Every status from 200 on is an error.
IsErrorStatus_From200(status_code) == status_code >= 200

\* Strict comparison: 400 itself is not an error.
IsErrorStatus_Strict(status_code) == status_code > 400

IsErrorStatus(status_code) == status_code >= 400

\* The exponent is the attempt, not the attempt minus one.
TransportBackoff_Exponent(a) == Min(MAX_BACKOFF_SECONDS, Pow2(a))

\* time.sleep(min(self._MAX_BACKOFF_SECONDS, 2 ** (attempt - 1)))
TransportBackoff(a) == Min(MAX_BACKOFF_SECONDS, Pow2(a - 1))

\* Without the lower clamp max(1, .).
ExtractBackoffSeconds_NoFloor(resp, a) ==
    LET retry_after_header == resp.retryAfter
        parsed == ParseInt(retry_after_header.v)
    IN  IF retry_after_header.has /\ retry_after_header.v # <<>> /\ parsed.ok
        THEN Min(MAX_BACKOFF_SECONDS, parsed.val)
        ELSE Min(MAX_BACKOFF_SECONDS, Pow2(a - 1))

\* _extract_backoff_seconds: a truthy Retry-After header that int() accepts
\* gives min(30, max(1, value)); otherwise the exponential backoff.
ExtractBackoffSeconds(resp, a) ==
    LET retry_after_header == resp.retryAfter
        parsed == ParseInt(retry_after_header.v)
    IN  IF retry_after_header.has /\ retry_after_header.v # <<>> /\ parsed.ok
        THEN Min(MAX_BACKOFF_SECONDS, Max(1, parsed.val))
        ELSE Min(MAX_BACKOFF_SECONDS, Pow2(a - 1))

NoResult ==
    [kind |-> "none", payload |-> JsonInvalid, reason |-> "", status |-> 0,
     text |-> "", cause |-> "None"]

\* return payload
Returned(payload) ==
    [kind |-> "payload", payload |-> payload, reason |-> "", status |-> 0,
     text |-> "", cause |-> "None"]

\* raise ApiError(message) [from cause]; status and text are the parts of the
\* message that come from the response.
ApiError(reason, status, text, cause) ==
    [kind |-> "ApiError", payload |-> JsonInvalid, reason |-> reason,
     status |-> status, text |-> text, cause |-> cause]

\* What an attempt is recorded as in trace: the transport exception, a
\* response with a status that asks for a retry (429 or 5xx), another one.
Observed(o) ==
    IF o.kind = "exception" THEN o.exc
    ELSE IF o.status = 429 \/ o.status \in 500..599 THEN "retryable"
    ELSE "final"

\* The state of a call that has just entered the loop.
GetJsonEnter ==
    /\ gj_pc' = "loop"
    /\ attempt' = 1
    /\ response' = NoResponse
    /\ last_error' = "None"
    /\ sleeps' = <<>>
    /\ get_count' = 0
    /\ gj_result' = NoResult
    /\ trace' = <<>>

InLoop == gj_pc = "loop" /\ attempt \in 1..MAX_RETRIES

\* self._session.get(...) answered o; nothing outside the call changes
\* while it runs.
Requested(o) ==
    /\ get_count' = get_count + 1
    /\ trace' = Append(trace, Observed(o))
    /\ UNCHANGED <<lpVars, frtVars, restVars>>

\* except RequestException on an attempt before the last: sleep, continue
TransportFailureRetry(o) ==
    /\ InLoop
    /\ o.kind = "exception"
    /\ attempt # MAX_RETRIES
    /\ Requested(o)
    /\ last_error' = o.exc
    /\ sleeps' = Append(sleeps, TransportBackoff(attempt))
    /\ attempt' = attempt + 1
    /\ UNCHANGED <<gj_pc, response, gj_result>>

\* except RequestException on the last attempt: raise ApiError from exc
TransportFailureFinal(o) ==
    /\ InLoop
    /\ o.kind = "exception"
    /\ attempt = MAX_RETRIES
    /\ Requested(o)
    /\ last_error' = o.exc
    /\ gj_pc' = "raised"
    /\ gj_result' = ApiError("transport", 0, "", o.exc)
    /\ UNCHANGED <<attempt, response, sleeps>>

\* a retryable status with attempts left: sleep, continue
RetryableResponse(o) ==
    /\ InLoop
    /\ o.kind = "response"
    /\ IsRetryable(o.status) /\ CanRetry(attempt)
    /\ Requested(o)
    /\ response' = o
    /\ sleeps' = Append(sleeps, ExtractBackoffSeconds(o, attempt))
    /\ attempt' = attempt + 1
    /\ UNCHANGED <<gj_pc, last_error, gj_result>>

\* status_code >= 400: raise ApiError with the status and the body text
StatusError(o) ==
    /\ InLoop
    /\ o.kind = "response"
    /\ ~(IsRetryable(o.status) /\ CanRetry(attempt))
    /\ IsErrorStatus(o.status)
    /\ Requested(o)
    /\ response' = o
    /\ gj_pc' = "raised"
    /\ gj_result' = ApiError("status", o.status, o.text, "None")
    /\ UNCHANGED <<attempt, last_error, sleeps>>

\* response.json() raises ValueError: raise ApiError from it
InvalidJson(o) ==
    /\ InLoop
    /\ o.kind = "response"
    /\ ~(IsRetryable(o.status) /\ CanRetry(attempt))
    /\ ~IsErrorStatus(o.status)
    /\ o.json.kind = "invalid"
    /\ Requested(o)
    /\ response' = o
    /\ gj_pc' = "raised"
    /\ gj_result' = ApiError("invalid_json", 0, "", "ValueError")
    /\ UNCHANGED <<attempt, last_error, sleeps>>

\* the payload is not a dict: raise ApiError
UnexpectedShape(o) ==
    /\ InLoop
    /\ o.kind = "response"
    /\ ~(IsRetryable(o.status) /\ CanRetry(attempt))
    /\ ~IsErrorStatus(o.status)
    /\ o.json.kind \notin {"invalid", "object"}
    /\ Requested(o)
    /\ response' = o
    /\ gj_pc' = "raised"
    /\ gj_result' = ApiError("shape", 0, "", "None")
    /\ UNCHANGED <<attempt, last_error, sleeps>>

\* return payload
ReturnPayload(o) ==
    /\ InLoop
    /\ o.kind = "response"
    /\ ~(IsRetryable(o.status) /\ CanRetry(attempt))
    /\ ~IsErrorStatus(o.status)
    /\ o.json.kind = "object"
    /\ Requested(o)
    /\ response' = o
    /\ gj_pc' = "returned"
    /\ gj_result' = Returned(o.json)
    /\ UNCHANGED <<attempt, last_error, sleeps>>

\* The statement after the loop (raise ... from last_error). It is not part
\* of any next-state relation: the loop never ends without a return or a
\* raise, see LoopNeverExhausted.
LoopExhausted ==
    /\ gj_pc = "loop"
    /\ attempt > MAX_RETRIES
    /\ gj_pc' = "raised"
    /\ gj_result' = ApiError("exhausted", 0, "", last_error)
    /\ UNCHANGED <<attempt, response, last_error, sleeps, get_count, trace>>

\* One loop iteration of _get_json against an answer drawn from outcomes.
GetJsonStep(outcomes) ==
    \E o \in outcomes :
        \/ TransportFailureRetry(o)
        \/ TransportFailureFinal(o)
        \/ RetryableResponse(o)
        \/ StatusError(o)
        \/ InvalidJson(o)
        \/ UnexpectedShape(o)
        \/ ReturnPayload(o)

GetJsonInit ==
    /\ gj_pc = "loop"
    /\ attempt = 1
    /\ response = NoResponse
    /\ last_error = "None"
    /\ sleeps = <<>>
    /\ get_count = 0
    /\ gj_result = NoResult
    /\ trace = <<>>

GetJsonIdle ==
    /\ gj_pc = "idle"
    /\ attempt = 1
    /\ response = NoResponse
    /\ last_error = "None"
    /\ sleeps = <<>>
    /\ get_count = 0
    /\ gj_result = NoResult
    /\ trace = <<>>

None == [has |-> FALSE, v |-> 0]
NoDatetime == [has |-> FALSE, v |-> [local |-> 0, off |-> 0]]

ListPRIdle ==
    /\ lp_pc = "idle"
    /\ min_time = NoDatetime
    /\ max_time = NoDatetime
    /\ skip = 0
    /\ pull_requests = <<>>
    /\ calls = <<>>
    /\ pages = <<>>
    /\ lp_result = [kind |-> "none", prs |-> <<>>]

NoPullRequest ==
    [pullRequestId |-> 0, creationDate |-> None, createdById |-> "",
     closedDate |-> None, status |-> ""]

FirstResponseIdle ==
    /\ frt_pc = "idle"
    /\ pr = NoPullRequest
    /\ threads = <<>>
    /\ thread_index = 1
    /\ first_response_at = None
    /\ client_calls = <<>>
    /\ seen = {}
    /\ frt_result = [kind |-> "none", seconds |-> None]

NoSamples == [kind |-> "none", dwell |-> <<>>, completion |-> <<>>]

CollectIdle ==
    /\ ck_pc = "idle"
    /\ prs = <<>>
    /\ pr_index = 1
    /\ dwell_times = <<>>
    /\ completion_times = <<>>
    /\ prs_without_response = 0
    /\ prs_without_completion = 0
    /\ dwell_results = <<>>
    /\ completion_results = <<>>
    /\ ck_result = NoSamples

NoPercentile == [kind |-> "none", value |-> None]
NoStatistics == [p50 |-> None, p75 |-> None, p90 |-> None, count |-> 0]

StatsIdle ==
    /\ sorted_values = <<>>
    /\ cp_p = 0
    /\ percentile = NoPercentile
    /\ cs_samples = <<>>
    /\ statistics = NoStatistics
    /\ fd_seconds = None
    /\ formatted = <<>>
    /\ repo_name = <<>>
    /\ report_dwell = <<>>
    /\ report_completion = <<>>
    /\ report = <<>>

\* A dict without keys.
EmptyDict == [k \in {} |-> ""]

ResolveNameIdle ==
    /\ rn_pc = "idle"
    /\ rn_repo_name = <<>>
    /\ repositories = <<>>
    /\ repository_index = 1
    /\ rn_fetches = 0
    /\ rn_result = [kind |-> "none", id |-> ""]

ResolveNamesIdle ==
    /\ rb_pc = "idle"
    /\ repo_names = <<>>
    /\ repos_by_name = EmptyDict
    /\ name_index = 1
    /\ resolved = EmptyDict
    /\ unresolved = <<>>
    /\ rb_fetches = 0
    /\ rb_listing = <<>>

NoMainResponse == [status |-> 0, retry_after |-> [kind |-> "absent", v |-> 0]]

MainGetIdle ==
    /\ mg_pc = "idle"
    /\ mg_attempt = 1
    /\ mg_response = NoMainResponse
    /\ mg_requests = 0
    /\ mg_sleeps = <<>>
    /\ mg_result = "none"

NoComments == [kind |-> "none", comments |-> <<>>]
NoKpis == [kind |-> "none", dwell_seconds |-> <<>>, completion_seconds |-> <<>>]

RepoKpisIdle ==
    /\ kp_pc = "idle"
    /\ raw_comments = <<>>
    /\ comments_listed = NoComments
    /\ kp_pull_requests = <<>>
    /\ kp_index = 1
    /\ kp_thread_comments = <<>>
    /\ kp_result = NoKpis

NoArgs == [pat |-> FALSE, repo_id |-> <<>>, repo_name |-> <<>>]

MainIdle ==
    /\ mn_pc = "idle"
    /\ args = NoArgs
    /\ mn_repositories = <<>>
    /\ resolved_repo_ids = EmptyDict
    /\ repo_ids = {}
    /\ processed = <<>>
    /\ all_dwell = <<>>
    /\ all_completion = <<>>
    /\ exit_code = None
    /\ stderr = <<>>
    /\ escaped = "none"
    /\ mn_requests = 0

MainModuleIdle == MainGetIdle /\ RepoKpisIdle /\ MainIdle

RestIdle ==
    /\ CollectIdle
    /\ st_pc = "idle"
    /\ StatsIdle
    /\ MainModuleIdle
    /\ ResolveNameIdle
    /\ ResolveNamesIdle

GetJsonNext ==
    \E o \in GetJsonOutcomes :
        \/ TransportFailureRetry(o)
        \/ TransportFailureFinal(o)
        \/ RetryableResponse(o)
        \/ StatusError(o)
        \/ InvalidJson(o)
        \/ UnexpectedShape(o)
        \/ ReturnPayload(o)

\* One _get_json call on its own.
GetJsonAlone == GetJsonInit /\ ListPRIdle /\ FirstResponseIdle /\ RestIdle

SpecGetJson == GetJsonAlone /\ [][GetJsonNext]_vars

LoopNeverExhausted == ~ENABLED LoopExhausted

-----------------------------------------------------------------------------
(* Claims about _get_json, checked under SpecGetJson                       *)

Attempts == Len(trace)
AllRetryable == \A i \in 1..Len(trace) : trace[i] = "retryable"
RetryableBeforeLast == \A i \in 1..(Len(trace) - 1) : trace[i] = "retryable"
LastWasResponse == Len(trace) >= 1 /\ Last(trace) \in {"retryable", "final"}
LastWasException == Len(trace) >= 1 /\ Last(trace) \in Exceptions
Ended == gj_pc \in {"returned", "raised"}

\* C1: when every attempt receives a retryable status (429 or 5xx), the call
\* goes on until exactly 5 GET requests were issued, sleeps exactly 4 times
\* (not after the fifth request) and ends by raising ApiError.
C1_AllRetryableExhausts ==
    /\ get_count <= 5
    /\ (AllRetryable /\ Attempts < 5) =>
            (gj_pc = "loop" /\ get_count = Attempts /\ Len(sleeps) = Attempts)
    /\ (AllRetryable /\ Attempts = 5) =>
            (/\ gj_pc = "raised"
             /\ gj_result.kind = "ApiError"
             /\ get_count = 5
             /\ Len(sleeps) = 4)

C1_Witness ==
    AllRetryable /\ Attempts = 5 /\ gj_pc = "raised" /\ Len(sleeps) = 4

\* C2: when the first k responses (0 <= k <= 4) are retryable and response
\* k+1 is a 200 whose body is a JSON object, the call returns exactly that
\* object after k+1 requests and k sleeps.
C2_RetryThenSuccess ==
    (/\ Attempts >= 1
     /\ RetryableBeforeLast
     /\ Last(trace) = "final"
     /\ response.status = 200
     /\ response.json.kind = "object")
    => (/\ gj_pc = "returned"
        /\ gj_result.kind = "payload"
        /\ gj_result.payload = response.json
        /\ get_count = Attempts
        /\ Len(sleeps) = Attempts - 1)

C2_Witness ==
    /\ Attempts = 5 /\ RetryableBeforeLast /\ Last(trace) = "final"
    /\ response.status = 200
    /\ gj_pc = "returned"
    /\ gj_result.payload = JsonObject(FALSE, NoItems)
    /\ Len(sleeps) = 4

\* The sleep that has just followed a retryable response on attempt a.
JustSleptOnResponse == gj_pc = "loop" /\ Attempts >= 1 /\ Last(trace) = "retryable"
HeaderParses(resp) ==
    resp.retryAfter.has /\ ParseInt(resp.retryAfter.v).ok
HeaderValue(resp) == ParseInt(resp.retryAfter.v).val

\* C3 as stated: the sleep after a retryable response on attempt a is
\* min(30, R) for every integer Retry-After value R, and min(30, 2^(a-1))
\* when the header is absent or not an integer.
C3_Original ==
    JustSleptOnResponse =>
        Last(sleeps) = IF HeaderParses(response)
                       THEN Min(30, HeaderValue(response))
                       ELSE Min(30, Pow2(Attempts - 1))

\* C3 amended: the sleep after a retryable response on attempt a is
\* min(30, max(1, R)) when the Retry-After header parses as the integer R
\* (so R <= 0 sleeps 1 second), and min(30, 2^(a-1)) when the header is
\* absent or not an integer.
C3_BackoffClampedBothWays ==
    JustSleptOnResponse =>
        /\ Len(sleeps) = Attempts
        /\ Last(sleeps) = IF HeaderParses(response)
                          THEN Min(30, Max(1, HeaderValue(response)))
                          ELSE Min(30, Pow2(Attempts - 1))

C3_Witness ==
    /\ JustSleptOnResponse
    /\ HeaderParses(response) /\ HeaderValue(response) = 0 - 5
    /\ Last(sleeps) = 1

\* C4: a response with a status in 400..499 other than 429, on whichever
\* attempt it arrives, makes the call raise ApiError at once: no request and
\* no sleep follows it, and the error carries the status code and the body.
C4_ClientErrorFailsAtOnce ==
    (/\ Attempts >= 1
     /\ Last(trace) = "final"
     /\ response.status \in (400..499) \ {429})
    => (/\ gj_pc = "raised"
        /\ gj_result.kind = "ApiError"
        /\ gj_result.status = response.status
        /\ gj_result.text = response.text
        /\ gj_result.text = "body"
        /\ get_count = Attempts
        /\ Len(sleeps) = Attempts - 1
        /\ ~ENABLED GetJsonNext)

C4_Witness ==
    /\ Attempts = 3 /\ Last(trace) = "final" /\ response.status = 404
    /\ gj_pc = "raised" /\ gj_result.status = 404 /\ Len(sleeps) = 2

\* C5: transport exceptions share the one attempt budget with retryable
\* statuses: at most 5 requests are made; a transport failure on attempt
\* a < 5 is followed by one sleep of min(30, 2^(a-1)) seconds and a retry;
\* a transport failure on attempt 5 raises ApiError whose cause is that
\* fifth attempt's exception.
C5_TransportFailuresShareBudget ==
    /\ get_count = Attempts /\ Attempts <= 5
    /\ (LastWasException /\ Attempts < 5) =>
            (/\ gj_pc = "loop"
             /\ attempt = Attempts + 1
             /\ Len(sleeps) = Attempts
             /\ Last(sleeps) = Min(30, Pow2(Attempts - 1)))
    /\ (LastWasException /\ Attempts = 5) =>
            (/\ gj_pc = "raised"
             /\ gj_result.kind = "ApiError"
             /\ gj_result.cause = trace[5]
             /\ Len(sleeps) = 4)

C5_Witness ==
    /\ Attempts = 5 /\ gj_pc = "raised"
    /\ trace[5] = "Timeout" /\ gj_result.cause = "Timeout"
    /\ trace[4] = "ConnectionError" /\ trace[3] = "retryable"

\* C6 as stated: a payload is returned only when the final response has a
\* 2xx status; every final response with another status (1xx and 3xx
\* included) ends the call with ApiError.
C6_Original ==
    /\ gj_pc = "returned" => response.status \in 200..299
    /\ (Ended /\ LastWasResponse /\ response.status \notin 200..299) =>
            gj_result.kind = "ApiError"

\* C6 amended: a payload is returned only when the final response has a
\* status below 400 and a JSON-object body (a 1xx or 3xx response is decoded
\* like a 2xx one); every final response with a status of 400 or more,
\* 429 and 5xx on the last attempt included, ends the call with ApiError.
C6_PayloadOnlyBelow400 ==
    /\ gj_pc = "returned" =>
            (/\ LastWasResponse
             /\ response.status < 400
             /\ response.json.kind = "object"
             /\ gj_result = Returned(response.json))
    /\ (Ended /\ LastWasResponse /\ response.status >= 400) =>
            (gj_pc = "raised" /\ gj_result.kind = "ApiError")
    /\ (Ended /\ LastWasResponse /\ response.status < 400
            /\ response.json.kind = "object") => gj_pc = "returned"

C6_Witness ==
    /\ gj_pc = "returned" /\ response.status = 302
    /\ gj_result.kind = "payload"

-----------------------------------------------------------------------------
(* Timestamps.  An ISO-8601 text is [form, local, off]: its wall-clock     *)
(* seconds, its UTC offset in seconds and how the zone is written ("Z",    *)
(* "offset" for +hh:mm, "naive" for none), or a text that is empty or that *)
(* datetime.fromisoformat rejects ("empty", "invalid").  A timezone-aware  *)
(* datetime is the instant it denotes, in seconds UTC: Python compares and *)
(* subtracts aware datetimes by instant.                                   *)

Some(x) == [has |-> TRUE, v |-> x]

IsoText(form, local, off) == [form |-> form, local |-> local, off |-> off]
EmptyText == IsoText("empty", 0, 0)
InvalidText == IsoText("invalid", 0, 0)
NoText == [has |-> FALSE, v |-> EmptyText]

\* A datetime argument: wall-clock seconds and UTC offset.
Datetime(local, off) == [local |-> local, off |-> off]

\* _format_datetime: value.astimezone(utc).isoformat() with +00:00 as Z
FormatDatetime(value) == IsoText("Z", value.local - value.off, 0)

\* _parse_datetime: None for a missing or empty text; a trailing Z is +00:00;
\* a text without zone is taken as UTC; fromisoformat raises ValueError on
\* anything else.
ParseDatetime(value) ==
    IF ~value.has \/ value.v.form = "empty"
    THEN [kind |-> "none", utc |-> 0]
    ELSE IF value.v.form = "Z" THEN [kind |-> "ok", utc |-> value.v.local]
    ELSE IF value.v.form = "offset"
         THEN [kind |-> "ok", utc |-> value.v.local - value.v.off]
    ELSE IF value.v.form = "naive" THEN [kind |-> "ok", utc |-> value.v.local]
    ELSE [kind |-> "ValueError", utc |-> 0]

-----------------------------------------------------------------------------
(* The pull-request items a page can hold                                  *)

NoId == [has |-> FALSE, v |-> ""]
NoCreatedBy == [has |-> FALSE, v |-> [id |-> NoId]]

\* A well-formed item; its closedDate and status vary with its id.
GoodItem(id) ==
    [pullRequestId |-> Some(id),
     creationDate  |-> Some(IF id % 3 = 0 THEN IsoText("offset", 3600 + id, 3600)
                            ELSE IF id % 3 = 1 THEN IsoText("Z", id, 0)
                            ELSE IsoText("naive", id, 0)),
     createdBy     |-> Some([id |-> Some("user-1")]),
     closedDate    |-> IF id % 2 = 0 THEN Some(IsoText("Z", id + 60, 0)) ELSE NoText,
     status        |-> Some(IF id % 2 = 0 THEN "completed" ELSE "active")]

\* The ways an item can be malformed.
MissingField ==
    {"no_id", "no_creation", "empty_creation", "no_created_by", "no_author_id",
     "empty_author_id", "no_status", "empty_status"}
BadDate == {"bad_creation", "bad_closed"}

Damage(item, d) ==
    CASE d = "no_id" -> [item EXCEPT !.pullRequestId = None]
      [] d = "no_creation" -> [item EXCEPT !.creationDate = NoText]
      [] d = "empty_creation" -> [item EXCEPT !.creationDate = Some(EmptyText)]
      [] d = "no_created_by" -> [item EXCEPT !.createdBy = NoCreatedBy]
      [] d = "no_author_id" -> [item EXCEPT !.createdBy = Some([id |-> NoId])]
      [] d = "empty_author_id" -> [item EXCEPT !.createdBy = Some([id |-> Some("")])]
      [] d = "no_status" -> [item EXCEPT !.status = NoId]
      [] d = "empty_status" -> [item EXCEPT !.status = Some("")]
      [] d = "bad_creation" -> [item EXCEPT !.creationDate = Some(InvalidText)]
      [] d = "bad_closed" -> [item EXCEPT !.closedDate = Some(InvalidText)]
      [] OTHER -> item

RECURSIVE DamageAll(_, _)
DamageAll(item, ds) ==
    IF ds = {} THEN item
    ELSE LET d == CHOOSE x \in ds : TRUE
         IN  DamageAll(Damage(item, d), ds \ {d})

\* The damage done to the first item of a page, and to its last item.
ItemDamage ==
    {{d} : d \in MissingField \cup BadDate} \cup {{"no_status", "bad_closed"}}

\* The damage done to the first and to the last item of a page: none, one
\* of the two damaged, or a bad date first and a missing field last.
PageDamage ==
    {<<{}, {}>>, <<{"bad_closed"}, {"no_creation"}>>}
    \cup {<<d, {}>> : d \in ItemDamage}
    \cup {<<{}, d>> : d \in {{"no_status"}, {"no_id"}, {"bad_creation"}}}

PageLengths == {0, 1, PULL_REQUEST_PAGE_SIZE - 1, PULL_REQUEST_PAGE_SIZE}

\* The page of n items the server sends for offset `from`: ids from, from+1,
\* ... (the first id of a listing is 0), its first and last item damaged.
PageItems(from, n, d1, d2) ==
    [i \in 1..n |->
        IF i = 1 THEN DamageAll(GoodItem(from), d1)
        ELSE IF i = n THEN DamageAll(GoodItem(from + i - 1), d2)
        ELSE GoodItem(from + i - 1)]

\* What the transport can answer to the page request at offset `from`, the
\* listing having received `full` full pages so far and this fetch having
\* seen the failures `failed`: a well-formed page of any length, a damaged
\* page of one item or of a full page, a body that is no JSON object, a 404,
\* or one more failure of the kind this fetch has seen so far (a fetch meets
\* 503s or connection errors, not both; SpecGetJson mixes them).
ListPROutcomes(from, full, failed) ==
    {HttpResponse(200, NoHeader, "page",
                  JsonObject(TRUE, PageItems(from, n, {}, {}))) :
        n \in {m \in PageLengths : m < PULL_REQUEST_PAGE_SIZE \/ full < MaxFullPages}}
    \cup {HttpResponse(200, NoHeader, "page",
                  JsonObject(TRUE, PageItems(from, n, d[1], d[2]))) :
        n \in {m \in {1, PULL_REQUEST_PAGE_SIZE} :
                  m < PULL_REQUEST_PAGE_SIZE \/ full < MaxFullPages},
        d \in PageDamage}
    \cup {HttpResponse(200, NoHeader, "page", j) :
            j \in {JsonObject(FALSE, NoItems), JsonArray, JsonInvalid}}
    \cup {HttpResponse(404, NoHeader, "gone", JsonInvalid)}
    \cup {HttpResponse(503, NoHeader, "busy", JsonInvalid) : x \in
            {y \in {1} : \A i \in 1..Len(failed) : failed[i] = "retryable"}}
    \cup {TransportError("ConnectionError") : x \in
            {y \in {1} : \A i \in 1..Len(failed) : failed[i] \in Exceptions}}

-----------------------------------------------------------------------------
(* AdoClient.list_pull_requests                                            *)

NoParam == [has |-> FALSE, v |-> EmptyText]

\* Both bounds are sent whenever at least one is given (None is formatted
\* as an empty text).
BuildParams_EitherBound(skip_, min_, max_) ==
    [status |-> "all", top |-> PULL_REQUEST_PAGE_SIZE, skip |-> skip_,
     minTime |-> IF min_.has THEN Some(FormatDatetime(min_.v))
                 ELSE IF max_.has THEN Some(EmptyText) ELSE NoParam,
     maxTime |-> IF max_.has THEN Some(FormatDatetime(max_.v))
                 ELSE IF min_.has THEN Some(EmptyText) ELSE NoParam]

\* The params dict of one page request; a key left out is has = FALSE.
BuildParams(skip_, min_, max_) ==
    [status |-> "all", top |-> PULL_REQUEST_PAGE_SIZE, skip |-> skip_,
     minTime |-> IF min_.has /\ max_.has THEN Some(FormatDatetime(min_.v))
                 ELSE NoParam,
     maxTime |-> IF min_.has /\ max_.has THEN Some(FormatDatetime(max_.v))
                 ELSE NoParam]

\* The offset advances by one, as a page number would.
NextSkip_ByOne(skip_) == skip_ + 1

\* skip += self._PULL_REQUEST_PAGE_SIZE
NextSkip(skip_) == skip_ + PULL_REQUEST_PAGE_SIZE

\* The loop ends at the first empty page only.
IsLastPage_Empty(page_items) == Len(page_items) = 0

\* if len(page_items) < self._PULL_REQUEST_PAGE_SIZE: break
IsLastPage(page_items) == Len(page_items) < PULL_REQUEST_PAGE_SIZE

Truthy(s) == s.has /\ s.v # ""

\* The required-field test of the loop body, on the values it has read.
IsMalformed(pr_id, creation_date, created_by_id, status) ==
    \/ ~pr_id.has
    \/ creation_date.kind = "none"
    \/ ~Truthy(created_by_id)
    \/ ~Truthy(status)

PullRequest(pr_id, creation_date, created_by_id, closed_date, status) ==
    [pullRequestId |-> pr_id, creationDate |-> creation_date,
     createdById |-> created_by_id, closedDate |-> closed_date,
     status |-> status]

\* One pass of the for loop body over item: the record it appends, or the
\* exception it raises (ValueError from fromisoformat comes first, then the
\* ApiError of the required-field test).
ProcessItem(item) ==
    LET pr_id         == item.pullRequestId
        creation_date == ParseDatetime(item.creationDate)
        created_by    == IF item.createdBy.has THEN item.createdBy.v
                         ELSE [id |-> NoId]
        created_by_id == created_by.id
        closed_date   == ParseDatetime(item.closedDate)
        status        == item.status
    IN  IF creation_date.kind = "ValueError" \/ closed_date.kind = "ValueError"
        THEN [kind |-> "ValueError", pr |-> <<>>]
        ELSE IF IsMalformed(pr_id, creation_date, created_by_id, status)
        THEN [kind |-> "ApiError", pr |-> <<>>]
        ELSE [kind |-> "ok",
              pr |-> PullRequest(pr_id.v, creation_date.utc, created_by_id.v,
                                 IF closed_date.kind = "ok"
                                 THEN Some(closed_date.utc) ELSE None,
                                 status.v)]

\* The for loop over page_items, acc being pull_requests: the loop ends at
\* the first item whose pass raises; the records of the items before it
\* have been appended.
ProcessItems(page_items, acc) ==
    LET n     == Len(page_items)
        each  == [i \in 1..n |-> ProcessItem(page_items[i])]
        bad   == {i \in 1..n : each[i].kind # "ok"}
        first == IF bad = {} THEN n + 1
                 ELSE CHOOSE i \in bad : \A j \in bad : i <= j
    IN  [kind |-> IF first > n THEN "ok" ELSE each[first].kind,
         prs  |-> acc \o [i \in 1..(first - 1) |-> each[i].pr]]

\* payload.get("value", [])
PageItemsOf(payload) == IF payload.hasValue THEN payload.value ELSE NoItems

\* pull_requests = []; skip = 0
ListPREnter(min_, max_) ==
    /\ lp_pc = "page"
    /\ min_time = min_
    /\ max_time = max_
    /\ skip = 0
    /\ pull_requests = <<>>
    /\ calls = <<>>
    /\ pages = <<>>
    /\ lp_result = [kind |-> "none", prs |-> <<>>]

\* The top of the while loop: build params and call self._get_json
RequestPage ==
    /\ lp_pc = "page"
    /\ lp_pc' = "fetch"
    /\ calls' = Append(calls, BuildParams(skip, min_time, max_time))
    /\ GetJsonEnter
    /\ UNCHANGED <<min_time, max_time, skip, pull_requests, pages, lp_result>>
    /\ UNCHANGED <<frtVars, restVars>>

\* _get_json at work for the current page
FetchPage ==
    /\ lp_pc = "fetch"
    /\ GetJsonStep(ListPROutcomes(skip, Len(pages), trace))

\* _get_json raised: ApiError leaves list_pull_requests
FetchFailed ==
    /\ lp_pc = "fetch" /\ gj_pc = "raised"
    /\ lp_pc' = "raised"
    /\ lp_result' = [kind |-> "ApiError", prs |-> <<>>]
    /\ gj_pc' = "idle"
    /\ UNCHANGED <<min_time, max_time, skip, pull_requests, calls, pages>>
    /\ UNCHANGED <<attempt, response, last_error, sleeps, get_count, gj_result, trace>>
    /\ UNCHANGED <<frtVars, restVars>>

GotPage == lp_pc = "fetch" /\ gj_pc = "returned"

\* _get_json returned and an item of the page ends the for loop with an
\* exception: ApiError for a missing field, ValueError from fromisoformat
PageRejected ==
    /\ GotPage
    /\ \E page_items \in {PageItemsOf(gj_result.payload)} :
       \E done \in {ProcessItems(page_items, pull_requests)} :
           /\ done.kind # "ok"
           /\ pages' = Append(pages, page_items)
           /\ pull_requests' = done.prs
           /\ lp_pc' = "raised"
           /\ lp_result' = [kind |-> done.kind, prs |-> <<>>]
    /\ gj_pc' = "idle"
    /\ UNCHANGED <<min_time, max_time, skip, calls>>
    /\ UNCHANGED <<attempt, response, last_error, sleeps, get_count, gj_result, trace>>
    /\ UNCHANGED <<frtVars, restVars>>

\* a full page was appended: skip advances and the loop goes on
PageAppended ==
    /\ GotPage
    /\ \E page_items \in {PageItemsOf(gj_result.payload)} :
       \E done \in {ProcessItems(page_items, pull_requests)} :
           /\ done.kind = "ok"
           /\ ~IsLastPage(page_items)
           /\ pages' = Append(pages, page_items)
           /\ pull_requests' = done.prs
           /\ skip' = NextSkip(skip)
           /\ lp_pc' = "page"
    /\ gj_pc' = "idle"
    /\ UNCHANGED <<min_time, max_time, calls, lp_result>>
    /\ UNCHANGED <<attempt, response, last_error, sleeps, get_count, gj_result, trace>>
    /\ UNCHANGED <<frtVars, restVars>>

\* a page shorter than the page size was appended: break, return
LastPageAppended ==
    /\ GotPage
    /\ \E page_items \in {PageItemsOf(gj_result.payload)} :
       \E done \in {ProcessItems(page_items, pull_requests)} :
           /\ done.kind = "ok"
           /\ IsLastPage(page_items)
           /\ pages' = Append(pages, page_items)
           /\ pull_requests' = done.prs
           /\ lp_pc' = "returned"
           /\ lp_result' = [kind |-> "list", prs |-> done.prs]
    /\ gj_pc' = "idle"
    /\ UNCHANGED <<min_time, max_time, skip, calls>>
    /\ UNCHANGED <<attempt, response, last_error, sleeps, get_count, gj_result, trace>>
    /\ UNCHANGED <<frtVars, restVars>>

\* The time bounds a caller passes: none, one of them, both.
MinTimeArgs == {NoDatetime, Some(Datetime(7200, 3600))}
MaxTimeArgs == {NoDatetime, Some(Datetime(9000, 0))}

ListPRInit ==
    /\ GetJsonIdle
    /\ FirstResponseIdle
    /\ RestIdle
    /\ \E min_ \in MinTimeArgs, max_ \in MaxTimeArgs :
           ListPREnter(min_, max_)

ListPRNext ==
    \/ RequestPage
    \/ FetchPage
    \/ FetchFailed
    \/ PageRejected
    \/ PageAppended
    \/ LastPageAppended

SpecListPR == ListPRInit /\ [][ListPRNext]_vars

-----------------------------------------------------------------------------
(* Claims about list_pull_requests, checked under SpecListPR               *)

RECURSIVE Concat(_)
Concat(pp) ==
    IF pp = <<>> THEN <<>>
    ELSE Concat(SubSeq(pp, 1, Len(pp) - 1)) \o pp[Len(pp)]

AllItems == Concat(pages)
PageProcessed == lp_pc \in {"page", "returned", "raised"} /\ Len(pages) = Len(calls)

\* C7: the k-th page request carries $top = 100 and $skip = 100*(k-1);
\* paging goes on after a page of 100 items and stops after the first page
\* with fewer; the returned list is the concatenation of the pages' records
\* in request order, each page in its own order.
C7_OffsetPaging ==
    /\ \A k \in 1..Len(calls) :
           calls[k].top = 100 /\ calls[k].skip = 100 * (k - 1)
    /\ Len(calls) \in {Len(pages), Len(pages) + 1}
    /\ \A k \in 1..(Len(pages) - 1) : Len(pages[k]) = 100
    /\ (lp_pc \in {"page", "fetch"}) => \A k \in 1..Len(pages) : Len(pages[k]) = 100
    /\ (PageProcessed /\ Len(pages) >= 1 /\ Len(Last(pages)) < 100) =>
           lp_pc \in {"returned", "raised"}
    /\ lp_pc = "returned" =>
           (/\ Len(pages) >= 1 /\ Len(Last(pages)) < 100
            /\ lp_result.kind = "list"
            /\ Len(lp_result.prs) = Len(AllItems)
            /\ \A j \in 1..Len(AllItems) :
                   /\ lp_result.prs[j].pullRequestId = AllItems[j].pullRequestId.v
                   /\ lp_result.prs[j].status = AllItems[j].status.v)

C7_Witness ==
    /\ lp_pc = "returned"
    /\ Len(calls) = 3 /\ calls[3].skip = 200
    /\ Len(pages[1]) = 100 /\ Len(pages[2]) = 100 /\ Len(pages[3]) = 99
    /\ Len(lp_result.prs) = 299
    /\ lp_result.prs[1].pullRequestId = 0
    /\ lp_result.prs[299].pullRequestId = 298

\* C8: every page request contains searchCriteria.minTime if and only if it
\* contains searchCriteria.maxTime, and contains them if and only if both
\* min_time and max_time were supplied (never as an empty value);
\* searchCriteria.status=all is sent on every page.
C8_TimeBoundsBothOrNeither ==
    \A k \in 1..Len(calls) :
        /\ calls[k].status = "all"
        /\ calls[k].minTime.has <=> calls[k].maxTime.has
        /\ calls[k].minTime.has <=> (min_time.has /\ max_time.has)
        /\ calls[k].minTime.has =>
               (/\ calls[k].minTime.v.form = "Z" /\ calls[k].maxTime.v.form = "Z"
                /\ calls[k].minTime.v.local = min_time.v.local - min_time.v.off
                /\ calls[k].maxTime.v.local = max_time.v.local - max_time.v.off)

C8_Witness ==
    /\ Len(calls) = 3
    /\ min_time.has /\ ~max_time.has
    /\ ~calls[1].minTime.has /\ ~calls[3].maxTime.has

C8_WitnessBoth ==
    /\ Len(calls) = 2
    /\ min_time.has /\ max_time.has
    /\ calls[2].minTime.has /\ calls[2].maxTime.has
    /\ calls[2].minTime.v.local = 3600

\* An item that lacks pullRequestId, creationDate, createdBy.id or status.
LacksRequired(item) ==
    \/ ~item.pullRequestId.has
    \/ ~item.creationDate.has
    \/ ~item.createdBy.has \/ ~item.createdBy.v.id.has
    \/ ~item.status.has

\* C9: if any item on any page lacks pullRequestId, creationDate,
\* createdBy.id or status, the call raises ApiError and returns no list at
\* all, and no record is ever built with a defaulted value for one of these
\* four fields.
C9_MalformedItemRaisesApiError ==
    /\ (PageProcessed /\ \E j \in 1..Len(AllItems) : LacksRequired(AllItems[j])) =>
           (/\ lp_pc = "raised"
            /\ lp_result.kind = "ApiError"
            /\ lp_result.prs = <<>>)
    /\ \A j \in 1..Len(pull_requests) :
           /\ ~LacksRequired(AllItems[j])
           /\ pull_requests[j].pullRequestId = AllItems[j].pullRequestId.v
           /\ pull_requests[j].createdById = AllItems[j].createdBy.v.id.v
           /\ pull_requests[j].status = AllItems[j].status.v

-----------------------------------------------------------------------------
(* kpi.compute_first_response_time                                         *)
(* The client is the typed AdoClient: Thread(id), Comment(authorId,        *)
(* publishedDate) with timezone-aware datetimes (instants) or None.        *)

Thread(id) == [id |-> id]
Comment(authorId, publishedDate) ==
    [authorId |-> authorId, publishedDate |-> publishedDate]

\* The comments a thread can hold: by the author or by a reviewer,
\* published at 1 or 3 or without publishedDate.
Authors == {"author", "reviewer"}
PublishedDates == {None, Some(1), Some(3)}
Comments == {Comment(a, d) : a \in Authors, d \in PublishedDates}

RECURSIVE SeqsUpTo(_, _)
SeqsUpTo(S, n) ==
    IF n = 0 THEN {<<>>}
    ELSE LET shorter == SeqsUpTo(S, n - 1)
         IN  shorter \cup {Append(q, x) : q \in {r \in shorter : Len(r) = n - 1},
                                          x \in S}

CommentLists == SeqsUpTo(Comments, MaxComments)

\* What list_threads can return: threads 1..n or n..1, n <= MaxThreads.
ThreadLists ==
    {[i \in 1..n |-> Thread(i)] : n \in 0..MaxThreads}
    \cup {[i \in 1..n |-> Thread(n + 1 - i)] : n \in 0..MaxThreads}

\* The pull requests of the specification: created at 1 or at 2 by "author".
FirstResponsePRs ==
    {[pullRequestId |-> 7, creationDate |-> Some(c), createdById |-> "author",
      closedDate |-> None, status |-> "active"] : c \in {1, 2}}

\* The comparison picks the later comment.
IsEarlier_Later(published, first) == published > first

\* comment.publishedDate < first_response_at
IsEarlier(published, first) == published < first

\* The inner loop `for comment in comments`, from comment i on: the value of
\* first_response_at after it.
RECURSIVE ScanComments(_, _, _, _)
ScanComments(comments, i, first, createdById) ==
    IF i > Len(comments) THEN first
    ELSE LET comment == comments[i]
         IN  IF comment.authorId = createdById
             THEN ScanComments(comments, i + 1, first, createdById)
             ELSE IF ~comment.publishedDate.has
             THEN ScanComments(comments, i + 1, first, createdById)
             ELSE IF ~first.has \/ IsEarlier(comment.publishedDate.v, first.v)
             THEN ScanComments(comments, i + 1, comment.publishedDate, createdById)
             ELSE ScanComments(comments, i + 1, first, createdById)

\* The comments of the first thread are asked for, whatever the thread.
ListThreadCommentsCall_FirstThread(pr_id, thread_id) ==
    [op |-> "list_thread_comments", pr_id |-> pr_id, thread_id |-> 1]

ListThreadsCall(pr_id) == [op |-> "list_threads", pr_id |-> pr_id, thread_id |-> 0]
ListThreadCommentsCall(pr_id, thread_id) ==
    [op |-> "list_thread_comments", pr_id |-> pr_id, thread_id |-> thread_id]

FrtReturn(seconds) == [kind |-> "returned", seconds |-> seconds]
FrtRaise == [kind |-> "ApiError", seconds |-> None]

\* The state of a call that has just been entered with pr_.
FirstResponseEnter(pr_) ==
    /\ frt_pc = "start"
    /\ pr = pr_
    /\ threads = <<>>
    /\ thread_index = 1
    /\ first_response_at = None
    /\ client_calls = <<>>
    /\ seen = {}
    /\ frt_result = [kind |-> "none", seconds |-> None]

\* pr.creationDate is None: return None before any client call.  The typed
\* client never builds such a PullRequest, so no next-state relation takes
\* this step.
NoCreationDate ==
    /\ frt_pc = "start"
    /\ ~pr.creationDate.has
    /\ frt_pc' = "returned"
    /\ frt_result' = FrtReturn(None)
    /\ UNCHANGED <<pr, threads, thread_index, first_response_at, client_calls, seen>>
    /\ UNCHANGED <<gjVars, lpVars, restVars>>

\* threads = ado_client.list_threads(...); first_response_at = None, the
\* client returning one of thread_lists
ListThreadsFrom(thread_lists) ==
    /\ frt_pc = "start"
    /\ pr.creationDate.has
    /\ client_calls' = Append(client_calls, ListThreadsCall(pr.pullRequestId))
    /\ \E ts \in thread_lists : threads' = ts
    /\ thread_index' = 1
    /\ first_response_at' = None
    /\ frt_pc' = "threads"
    /\ UNCHANGED <<pr, seen, frt_result>>
    /\ UNCHANGED <<gjVars, lpVars, restVars>>

ListThreads == ListThreadsFrom(ThreadLists)

\* ado_client.list_threads raises ApiError
ListThreadsFails ==
    /\ frt_pc = "start"
    /\ pr.creationDate.has
    /\ client_calls' = Append(client_calls, ListThreadsCall(pr.pullRequestId))
    /\ frt_pc' = "raised"
    /\ frt_result' = FrtRaise
    /\ UNCHANGED <<pr, threads, thread_index, first_response_at, seen>>
    /\ UNCHANGED <<gjVars, lpVars, restVars>>

InThreads == frt_pc = "threads" /\ thread_index <= Len(threads)

\* One pass of `for thread in threads`: list_thread_comments and the scan,
\* the client returning one of comment_lists
ListThreadCommentsFrom(comment_lists) ==
    /\ InThreads
    /\ client_calls' = Append(client_calls,
           ListThreadCommentsCall(pr.pullRequestId, threads[thread_index].id))
    /\ \E comments \in comment_lists :
           /\ first_response_at' =
                  ScanComments(comments, 1, first_response_at, pr.createdById)
           /\ seen' = seen \cup {comments[i] : i \in 1..Len(comments)}
    /\ thread_index' = thread_index + 1
    /\ UNCHANGED <<frt_pc, pr, threads, frt_result>>
    /\ UNCHANGED <<gjVars, lpVars, restVars>>

ListThreadComments == ListThreadCommentsFrom(CommentLists)

\* ado_client.list_thread_comments raises ApiError
ListThreadCommentsFails ==
    /\ InThreads
    /\ client_calls' = Append(client_calls,
           ListThreadCommentsCall(pr.pullRequestId, threads[thread_index].id))
    /\ frt_pc' = "raised"
    /\ frt_result' = FrtRaise
    /\ UNCHANGED <<pr, threads, thread_index, first_response_at, seen>>
    /\ UNCHANGED <<gjVars, lpVars, restVars>>

ThreadsDone == frt_pc = "threads" /\ thread_index > Len(threads)

\* (first_response_at - pr.creationDate).total_seconds()
DurationSeconds(later, earlier) == later - earlier

\* if first_response_at is None: return None
NoFirstResponse ==
    /\ ThreadsDone
    /\ ~first_response_at.has
    /\ frt_pc' = "returned"
    /\ frt_result' = FrtReturn(None)
    /\ UNCHANGED <<pr, threads, thread_index, first_response_at, client_calls, seen>>
    /\ UNCHANGED <<gjVars, lpVars, restVars>>

\* if duration_seconds < 0: return None
NegativeDuration ==
    /\ ThreadsDone
    /\ first_response_at.has
    /\ DurationSeconds(first_response_at.v, pr.creationDate.v) < 0
    /\ frt_pc' = "returned"
    /\ frt_result' = FrtReturn(None)
    /\ UNCHANGED <<pr, threads, thread_index, first_response_at, client_calls, seen>>
    /\ UNCHANGED <<gjVars, lpVars, restVars>>

\* return duration_seconds
ReturnDuration ==
    /\ ThreadsDone
    /\ first_response_at.has
    /\ ~(DurationSeconds(first_response_at.v, pr.creationDate.v) < 0)
    /\ frt_pc' = "returned"
    /\ frt_result' =
           FrtReturn(Some(DurationSeconds(first_response_at.v, pr.creationDate.v)))
    /\ UNCHANGED <<pr, threads, thread_index, first_response_at, client_calls, seen>>
    /\ UNCHANGED <<gjVars, lpVars, restVars>>

FirstResponseInit ==
    /\ GetJsonIdle
    /\ ListPRIdle
    /\ RestIdle
    /\ \E pr_ \in FirstResponsePRs : FirstResponseEnter(pr_)

FirstResponseNext ==
    \/ ListThreads
    \/ ListThreadsFails
    \/ ListThreadComments
    \/ ListThreadCommentsFails
    \/ NoFirstResponse
    \/ NegativeDuration
    \/ ReturnDuration

SpecFirstResponse == FirstResponseInit /\ [][FirstResponseNext]_vars

-----------------------------------------------------------------------------
(* Claims about compute_first_response_time, under SpecFirstResponse       *)

\* The publishedDate of every comment returned so far that has one and
\* whose author is not the author of the pull request.
Qualifying ==
    {c.publishedDate.v : c \in {d \in seen : d.publishedDate.has
                                            /\ d.authorId # pr.createdById}}
Earliest(S) == CHOOSE m \in S : \A x \in S : m <= x

\* C10 as stated: the result is (m - creationDate) for the minimum m of the
\* qualifying publishedDates, and absent when there is none.
C10_Original ==
    frt_pc = "returned" =>
        frt_result.seconds =
            IF Qualifying = {} THEN None
            ELSE Some(Earliest(Qualifying) - pr.creationDate.v)

\* C10 amended: the result is (m - creationDate) for the minimum m of the
\* qualifying publishedDates when m >= creationDate; it is absent when
\* there is no qualifying comment or when m < creationDate; it depends only
\* on the set of comments, not on the order of threads or comments.
C10_EarliestQualifyingOrAbsent ==
    frt_pc = "returned" =>
        frt_result.seconds =
            IF Qualifying = {} \/ Earliest(Qualifying) < pr.creationDate.v
            THEN None
            ELSE Some(Earliest(Qualifying) - pr.creationDate.v)

C10_Witness ==
    /\ frt_pc = "returned"
    /\ Len(threads) = 2 /\ Len(client_calls) = 3
    /\ Qualifying = {1, 3}
    /\ pr.creationDate.v = 2
    /\ frt_result.seconds = None

C10_WitnessDuration ==
    /\ frt_pc = "returned"
    /\ Len(threads) = 2
    /\ Qualifying = {1, 3}
    /\ Comment("author", Some(1)) \in seen
    /\ pr.creationDate.v = 1
    /\ frt_result.seconds = Some(0)

-----------------------------------------------------------------------------
(* kpi.compute_completion_time and kpi.collect_kpi_samples                 *)

\* A batch holds at most this many pull requests.
MaxPRs == 2

\* pr.status != "completed" is the first test of compute_completion_time.
IsCompleted_Always(status) == TRUE

IsCompleted(status) == status = "completed"

\* The negative-duration guard is missing.
IsNegative_Never(duration_seconds) == FALSE

\* if duration_seconds < 0
IsNegative(duration_seconds) == duration_seconds < 0

\* compute_completion_time(pr): an optional number of seconds
ComputeCompletionTime(pr_) ==
    IF ~IsCompleted(pr_.status) THEN None
    ELSE IF ~pr_.creationDate.has \/ ~pr_.closedDate.has THEN None
    ELSE LET duration_seconds ==
                 DurationSeconds(pr_.closedDate.v, pr_.creationDate.v)
         IN  IF IsNegative(duration_seconds) THEN None
             ELSE Some(duration_seconds)

\* The sample goes to the front of the list.
AppendSample_Prepend(samples, sample) == <<sample>> \o samples

\* dwell_times.append(dwell) / completion_times.append(completion)
AppendSample(samples, sample) == Append(samples, sample)

BatchPR(creationDate, closedDate, status) ==
    [pullRequestId |-> 6 + creationDate, creationDate |-> Some(creationDate),
     createdById |-> "author", closedDate |-> closedDate, status |-> status]

\* The pull requests of a batch (7 is created at 1, 8 at 2): completed after 2 or 1 seconds, closed
\* before it was created, completed without closedDate, active with one.
CollectPRs ==
    { BatchPR(1, Some(3), "completed"), BatchPR(2, Some(3), "completed"),
      BatchPR(2, Some(1), "completed"), BatchPR(1, None, "completed"),
      BatchPR(2, Some(3), "active") }

\* Within a batch a pull request has at most two threads, of at most two
\* comments each.
BatchThreadLists == { <<>>, <<Thread(1)>>, <<Thread(2), Thread(1)>> }
BatchCommentLists ==
    {<<>>} \cup {<<c>> : c \in Comments} \cup {<<c, d>> : c, d \in Comments}

BatchListThreads == ListThreadsFrom(BatchThreadLists)
BatchListThreadComments == ListThreadCommentsFrom(BatchCommentLists)

PRLists == SeqsUpTo(CollectPRs, MaxPRs)

CollectReturn(dwell, completion) ==
    [kind |-> "returned", dwell |-> dwell, completion |-> completion]
CollectRaise == [kind |-> "ApiError", dwell |-> <<>>, completion |-> <<>>]

\* The state of a call that has just been entered with prs_.
CollectEnter(prs_) ==
    /\ ck_pc = "loop"
    /\ prs = prs_
    /\ pr_index = 1
    /\ dwell_times = <<>>
    /\ completion_times = <<>>
    /\ prs_without_response = 0
    /\ prs_without_completion = 0
    /\ dwell_results = <<>>
    /\ completion_results = <<>>
    /\ ck_result = NoSamples

InPRs == ck_pc = "loop" /\ pr_index <= Len(prs)

\* dwell = compute_first_response_time(ado_client, repo_id, pr): the call
\* is entered; the steps of compute_first_response_time run it.
CallFirstResponse ==
    /\ InPRs
    /\ ck_pc' = "dwell"
    /\ frt_pc' = "start"
    /\ pr' = prs[pr_index]
    /\ threads' = <<>>
    /\ thread_index' = 1
    /\ first_response_at' = None
    /\ seen' = {}
    /\ frt_result' = [kind |-> "none", seconds |-> None]
    /\ UNCHANGED client_calls   \* the one client of the batch goes on
    /\ UNCHANGED <<prs, pr_index, dwell_times, completion_times,
                   prs_without_response, prs_without_completion,
                   dwell_results, completion_results, ck_result>>
    /\ UNCHANGED <<gjVars, lpVars, stVars, rnVars, rbVars, mainVars>>

\* The exception is caught and what was collected so far is returned.
FirstResponseRaised_Partial ==
    /\ ck_pc = "dwell"
    /\ frt_pc = "raised"
    /\ ck_pc' = "raised"
    /\ ck_result' = CollectReturn(dwell_times, completion_times)
    /\ UNCHANGED <<prs, pr_index, dwell_times, completion_times,
                   prs_without_response, prs_without_completion,
                   dwell_results, completion_results>>
    /\ UNCHANGED <<gjVars, lpVars, frtVars, stVars, rnVars, rbVars, mainVars>>

\* compute_first_response_time raised: the exception leaves the batch.
FirstResponseRaised ==
    /\ ck_pc = "dwell"
    /\ frt_pc = "raised"
    /\ ck_pc' = "raised"
    /\ ck_result' = CollectRaise
    /\ UNCHANGED <<prs, pr_index, dwell_times, completion_times,
                   prs_without_response, prs_without_completion,
                   dwell_results, completion_results>>
    /\ UNCHANGED <<gjVars, lpVars, frtVars, stVars, rnVars, rbVars, mainVars>>

\* if dwell is None: prs_without_response += 1
DwellAbsent ==
    /\ ck_pc = "dwell"
    /\ frt_pc = "returned"
    /\ ~frt_result.seconds.has
    /\ prs_without_response' = prs_without_response + 1
    /\ dwell_results' = Append(dwell_results, frt_result.seconds)
    /\ ck_pc' = "completion"
    /\ UNCHANGED <<prs, pr_index, dwell_times, completion_times,
                   prs_without_completion, completion_results, ck_result>>
    /\ UNCHANGED <<gjVars, lpVars, frtVars, stVars, rnVars, rbVars, mainVars>>

\* else: dwell_times.append(dwell)
DwellSample ==
    /\ ck_pc = "dwell"
    /\ frt_pc = "returned"
    /\ frt_result.seconds.has
    /\ dwell_times' = AppendSample(dwell_times, frt_result.seconds.v)
    /\ dwell_results' = Append(dwell_results, frt_result.seconds)
    /\ ck_pc' = "completion"
    /\ UNCHANGED <<prs, pr_index, completion_times, prs_without_response,
                   prs_without_completion, completion_results, ck_result>>
    /\ UNCHANGED <<gjVars, lpVars, frtVars, stVars, rnVars, rbVars, mainVars>>

\* completion = compute_completion_time(pr); if completion is None:
\* prs_without_completion += 1; then the next pull request
CompletionAbsent ==
    /\ ck_pc = "completion"
    /\ \E completion \in {ComputeCompletionTime(prs[pr_index])} :
           /\ ~completion.has
           /\ completion_results' = Append(completion_results, completion)
    /\ prs_without_completion' = prs_without_completion + 1
    /\ pr_index' = pr_index + 1
    /\ ck_pc' = "loop"
    /\ UNCHANGED <<prs, dwell_times, completion_times, prs_without_response,
                   dwell_results, ck_result>>
    /\ UNCHANGED <<gjVars, lpVars, frtVars, stVars, rnVars, rbVars, mainVars>>

\* completion = compute_completion_time(pr); else:
\* completion_times.append(completion); then the next pull request
CompletionSample ==
    /\ ck_pc = "completion"
    /\ \E completion \in {ComputeCompletionTime(prs[pr_index])} :
           /\ completion.has
           /\ completion_times' = AppendSample(completion_times, completion.v)
           /\ completion_results' = Append(completion_results, completion)
    /\ pr_index' = pr_index + 1
    /\ ck_pc' = "loop"
    /\ UNCHANGED <<prs, dwell_times, prs_without_response,
                   prs_without_completion, dwell_results, ck_result>>
    /\ UNCHANGED <<gjVars, lpVars, frtVars, stVars, rnVars, rbVars, mainVars>>

\* The loop is over: logger.info(...); return dwell_times, completion_times
CollectReturns ==
    /\ ck_pc = "loop"
    /\ pr_index > Len(prs)
    /\ ck_pc' = "returned"
    /\ ck_result' = CollectReturn(dwell_times, completion_times)
    /\ UNCHANGED <<prs, pr_index, dwell_times, completion_times,
                   prs_without_response, prs_without_completion,
                   dwell_results, completion_results>>
    /\ UNCHANGED <<gjVars, lpVars, frtVars, stVars, rnVars, rbVars, mainVars>>

CollectInit ==
    /\ GetJsonIdle
    /\ ListPRIdle
    /\ FirstResponseIdle
    /\ st_pc = "idle"
    /\ StatsIdle
    /\ MainModuleIdle
    /\ ResolveNameIdle
    /\ ResolveNamesIdle
    /\ \E prs_ \in PRLists : CollectEnter(prs_)

CollectNext ==
    \/ CallFirstResponse
    \/ BatchListThreads
    \/ ListThreadsFails
    \/ BatchListThreadComments
    \/ ListThreadCommentsFails
    \/ NoFirstResponse
    \/ NegativeDuration
    \/ ReturnDuration
    \/ FirstResponseRaised
    \/ DwellAbsent
    \/ DwellSample
    \/ CompletionAbsent
    \/ CompletionSample
    \/ CollectReturns

SpecCollect == CollectInit /\ [][CollectNext]_vars

-----------------------------------------------------------------------------
(* Claims about collect_kpi_samples and compute_completion_time, under     *)
(* SpecCollect                                                             *)

AllNonNegative(samples) == \A i \in 1..Len(samples) : samples[i] >= 0

\* The pull request closed before it was created and is completed.
ClosedBeforeCreated(pr_) ==
    /\ pr_.status = "completed"
    /\ pr_.closedDate.has
    /\ pr_.closedDate.v < pr_.creationDate.v

\* compute_first_response_time has returned for the current pull request,
\* whose earliest qualifying comment precedes its creationDate.
RespondedBeforeCreated ==
    /\ frt_pc = "returned"
    /\ Qualifying # {}
    /\ Earliest(Qualifying) < pr.creationDate.v

\* C11: every element of the two lists of collect_kpi_samples is >= 0; a
\* pull request whose earliest qualifying comment precedes its creationDate
\* adds nothing to dwell_times, and a completed pull request whose
\* closedDate precedes its creationDate adds nothing to completion_times.
C11_SamplesNonNegative ==
    /\ [](/\ AllNonNegative(dwell_times)
          /\ AllNonNegative(completion_times)
          /\ AllNonNegative(ck_result.dwell)
          /\ AllNonNegative(ck_result.completion))
    /\ [][/\ (ck_pc = "dwell" /\ RespondedBeforeCreated)
              => dwell_times' = dwell_times
          /\ (ck_pc = "completion" /\ ClosedBeforeCreated(prs[pr_index]))
              => completion_times' = completion_times]_vars

\* The second pull request of a batch has just been found without a dwell
\* sample because of a comment before its creation, after a first pull
\* request that closed before its creation gave no completion sample.
C11_Witness ==
    /\ ck_pc = "completion"
    /\ pr_index = 2
    /\ RespondedBeforeCreated
    /\ Last(dwell_results) = None
    /\ ClosedBeforeCreated(prs[1])
    /\ completion_results[1] = None
    /\ completion_times = <<>>

\* C12: compute_completion_time returns closedDate - creationDate exactly
\* when status is "completed", closedDate is present and the difference is
\* not negative, and None for every other pull request.
C12_CompletionTime ==
    \A i \in 1..Len(completion_results) :
        completion_results[i] =
            IF /\ prs[i].status = "completed"
               /\ prs[i].closedDate.has
               /\ prs[i].closedDate.v - prs[i].creationDate.v >= 0
            THEN Some(prs[i].closedDate.v - prs[i].creationDate.v)
            ELSE None

\* A completed pull request gave a positive time and an active one with a
\* closedDate gave none.
C12_Witness ==
    /\ Len(completion_results) = 2
    /\ \E i, j \in 1..2 :
           /\ prs[i].status = "completed"
           /\ completion_results[i].has
           /\ completion_results[i].v > 0
           /\ prs[j].status = "active"
           /\ prs[j].closedDate.has
           /\ completion_results[j] = None

\* The values of the results that are not None, in order.
RECURSIVE Present(_)
Present(results) ==
    IF results = <<>> THEN <<>>
    ELSE IF Head(results).has
    THEN <<Head(results).v>> \o Present(Tail(results))
    ELSE Present(Tail(results))

\* C13: collect_kpi_samples returns the non-absent results of
\* compute_first_response_time and of compute_completion_time, each in the
\* order of prs, and for each metric the samples and the counted pull
\* requests without a sample add up to len(prs).
C13_SamplesInOrder ==
    ck_pc = "returned" =>
        /\ Len(dwell_results) = Len(prs)
        /\ Len(completion_results) = Len(prs)
        /\ \A i \in 1..Len(prs) :
               completion_results[i] = ComputeCompletionTime(prs[i])
        /\ ck_result.dwell = Present(dwell_results)
        /\ ck_result.completion = Present(completion_results)
        /\ Len(ck_result.dwell) + prs_without_response = Len(prs)
        /\ Len(ck_result.completion) + prs_without_completion = Len(prs)

\* A batch of two returned two different dwell samples and one completion
\* sample, from its second pull request.
C13_Witness ==
    /\ ck_pc = "returned"
    /\ Len(prs) = 2
    /\ Len(ck_result.dwell) = 2
    /\ ck_result.dwell[1] # ck_result.dwell[2]
    /\ ~completion_results[1].has
    /\ Len(ck_result.completion) = 1

-----------------------------------------------------------------------------
(* stats: calculate_percentile, compute_statistics, format_duration,       *)
(* generate_report.  A sample is a whole number of seconds, None or NaN;   *)
(* a percentile and the argument of format_duration are exact numbers of   *)
(* hundredths of a second.                                                 *)

\* A list of samples has at most this many elements.
MaxSamples == 4

Num(x) == [kind |-> "num", v |-> x]
NaN == [kind |-> "nan", v |-> 0]
NoSample == [kind |-> "None", v |-> 0]

\* float("inf"): above every finite sample; it is not None, not NaN and
\* >= 0. In hundredths it is Hundredths(Infinity).
Infinity == 1000000

\* float("nan") as the value of an arithmetic expression, in the place of a
\* number of hundredths (no percentile of non-negative samples is negative).
NotANumber == -1

\* A float that is a whole number of seconds, in hundredths.
Hundredths(whole_seconds) == 100 * whole_seconds

PercentileReturn(value) == [kind |-> "returned", value |-> value]
PercentileRaise == [kind |-> "ValueError", value |-> None]

\* position = (len(sorted_values) - 1) * (p / 100.0), as a fraction
Position(n, percent) == [num |-> (n - 1) * percent, den |-> 100]

\* math.floor(position)
Floor(q) == q.num \div q.den

\* The position is rounded down on both sides.
Ceil_Floor(q) == q.num \div q.den

\* math.ceil(position)
Ceil(q) == IF q.num % q.den = 0 THEN q.num \div q.den ELSE (q.num \div q.den) + 1

\* calculate_percentile(sorted_values, p); Python indexes from 0
CalculatePercentile(values, percent) ==
    IF ~(0 <= percent /\ percent <= 100) THEN PercentileRaise
    ELSE IF values = <<>> THEN PercentileReturn(None)
    ELSE IF percent <= 0 THEN PercentileReturn(Some(Hundredths(values[1])))
    ELSE IF percent >= 100
    THEN PercentileReturn(Some(Hundredths(values[Len(values)])))
    ELSE LET position == Position(Len(values), percent)
             lower_index == Floor(position)
             upper_index == Ceil(position)
         IN  IF lower_index = upper_index
             THEN PercentileReturn(Some(Hundredths(values[lower_index + 1])))
             ELSE LET lower_value == values[lower_index + 1]
                      upper_value == values[upper_index + 1]
                  IN  IF lower_value = Infinity
                      THEN \* inf + (inf - inf) * f is nan
                           PercentileReturn(Some(NotANumber))
                      ELSE IF upper_value = Infinity
                      THEN \* x + (inf - x) * f is inf, f being > 0
                           PercentileReturn(Some(Hundredths(Infinity)))
                      ELSE PercentileReturn(Some(
                          Hundredths(lower_value)
                          + (upper_value - lower_value)
                            * (position.num - lower_index * position.den)))

\* Negative samples are kept.
IsValidSample_KeepNegative(sample) ==
    sample.kind # "None" /\ sample.kind # "nan"

\* sample is not None and not math.isnan(sample) and sample >= 0
IsValidSample(sample) ==
    sample.kind # "None" /\ sample.kind # "nan" /\ sample.v >= 0

\* sorted(...): ascending, by insertion
RECURSIVE Insert(_, _)
Insert(sorted, x) ==
    IF sorted = <<>> THEN <<x>>
    ELSE IF x < Head(sorted) THEN <<x>> \o sorted
    ELSE <<Head(sorted)>> \o Insert(Tail(sorted), x)

RECURSIVE Sorted(_)
Sorted(values) ==
    IF values = <<>> THEN <<>>
    ELSE Insert(Sorted(SubSeq(values, 1, Len(values) - 1)), values[Len(values)])

CleanSamples(samples_) ==
    LET valid == SelectSeq(samples_, IsValidSample)
    IN  Sorted([i \in 1..Len(valid) |-> valid[i].v])

\* compute_statistics(samples)
ComputeStatistics(samples_) ==
    LET clean_samples == CleanSamples(samples_)
    IN  [p50 |-> CalculatePercentile(clean_samples, 50).value,
         p75 |-> CalculatePercentile(clean_samples, 75).value,
         p90 |-> CalculatePercentile(clean_samples, 90).value,
         count |-> Len(clean_samples)]

\* round(seconds): to the nearest whole number, a half to the even one
RoundHalfEven(hundredths) ==
    LET whole == hundredths \div 100
        rest == hundredths % 100
    IN  IF rest < 50 THEN whole
        ELSE IF rest > 50 THEN whole + 1
        ELSE IF whole % 2 = 0 THEN whole ELSE whole + 1

DigitChar(d) ==
    CASE d = 0 -> "0" [] d = 1 -> "1" [] d = 2 -> "2" [] d = 3 -> "3"
      [] d = 4 -> "4" [] d = 5 -> "5" [] d = 6 -> "6" [] d = 7 -> "7"
      [] d = 8 -> "8" [] OTHER -> "9"

\* The decimal digits of n >= 0
RECURSIVE ToDigits(_)
ToDigits(n) ==
    IF n < 10 THEN <<DigitChar(n)>>
    ELSE ToDigits(n \div 10) \o <<DigitChar(n % 10)>>

\* f"{n:02d}": at least two characters, zero-padded, the sign included
Format02d(n) ==
    IF n < 0 THEN <<"-">> \o ToDigits(-n)
    ELSE IF n < 10 THEN <<"0">> \o ToDigits(n)
    ELSE ToDigits(n)

\* The minutes are not wrapped at the hour.
Minutes_Unwrapped(total_seconds) == total_seconds \div 60

\* minutes = (total_seconds % 3600) // 60
Minutes(total_seconds) == (total_seconds % 3600) \div 60

NotAvailable == <<"n", "/", "a">>

\* format_duration(seconds)
FormatDuration(seconds_) ==
    IF ~seconds_.has THEN NotAvailable
    ELSE LET total_seconds == RoundHalfEven(seconds_.v)
             hours == total_seconds \div 3600
             minutes == Minutes(total_seconds)
             remaining_seconds == total_seconds % 60
         IN  Format02d(hours) \o <<":">> \o Format02d(minutes) \o <<":">>
             \o Format02d(remaining_seconds)

\* One line of the report: a literal text and the formatted value after it.
Line(text, value) == [text |-> text, value |-> value]

\* P90 is printed before P75.
SectionLines_P90First(title, stats) ==
    << Line(title, <<>>),
       Line("   Samples: ", ToDigits(stats.count)),
       Line("   P50: ", FormatDuration(stats.p50)),
       Line("   P90: ", FormatDuration(stats.p90)),
       Line("   P75: ", FormatDuration(stats.p75)) >>

\* The title line of a section and its four value lines
SectionLines(title, stats) ==
    << Line(title, <<>>),
       Line("   Samples: ", ToDigits(stats.count)),
       Line("   P50: ", FormatDuration(stats.p50)),
       Line("   P75: ", FormatDuration(stats.p75)),
       Line("   P90: ", FormatDuration(stats.p90)) >>

\* generate_report(repo_name, dwell_times, completion_times): the lines
\* that "\n".join(lines) puts together
GenerateReport(name, dwell_times_, completion_times_) ==
    LET dwell_stats == ComputeStatistics(dwell_times_)
        completion_stats == ComputeStatistics(completion_times_)
    IN  << Line("Repository: ", name),
           Line("PR KPI Report", <<>>),
           Line("", <<>>) >>
        \o SectionLines("1) PR Review Dwell Time (First Response)", dwell_stats)
        \o << Line("", <<>>) >>
        \o SectionLines("2) PR Completion Time (Creation to Close)",
                        completion_stats)

\* ---- the arguments of the calls ----

SampleValues == {0, 10, 20, 30, 40}

IsAscending(values) ==
    \A i \in 1..(Len(values) - 1) : values[i] <= values[i + 1]

\* calculate_percentile expects its list in ascending order.
SortedLists == {v \in SeqsUpTo(SampleValues, MaxSamples) : IsAscending(v)}

Percents == {-1, 0, 1, 25, 50, 75, 90, 99, 100, 101}

Samples ==
    {NoSample, NaN, Num(-5), Num(0), Num(10), Num(20), Num(30), Num(Infinity)}
SampleLists == SeqsUpTo(Samples, MaxSamples)

\* Whole seconds up to two minutes and around the hour, the day and a
\* hundred hours; halves and a negative value.
WholeSeconds ==
    (0..130) \cup {3599, 3600, 3661, 86399, 86400, 97509, 359999, 360000}
Durations ==
    {None} \cup {Some(Hundredths(w)) : w \in WholeSeconds}
    \cup {Some(h) : h \in {50, 149, 150, 250, 5950, 359950, -40, -100}}

RepoNames == { <<"r">>, <<"m", "y", "-", "r", "e", "p", "o">> }

ReportValues == {NoSample, NaN, Num(-5), Num(1), Num(2)}
ReportLists ==
    SeqsUpTo(ReportValues, 2)
    \cup { <<Num(60), Num(120), Num(180)>>, <<Num(300), Num(600), Num(900)>> }

\* ---- one call ----

CallCalculatePercentile ==
    /\ st_pc = "ready"
    /\ \E values \in SortedLists, percent \in Percents :
           /\ sorted_values' = values
           /\ cp_p' = percent
           /\ percentile' = CalculatePercentile(values, percent)
    /\ st_pc' = "calculate_percentile"
    /\ UNCHANGED <<cs_samples, statistics, fd_seconds, formatted, repo_name,
                   report_dwell, report_completion, report>>
    /\ UNCHANGED <<gjVars, lpVars, frtVars, ckVars, rnVars, rbVars, mainVars>>

CallComputeStatistics ==
    /\ st_pc = "ready"
    /\ \E samples_ \in SampleLists :
           /\ cs_samples' = samples_
           /\ statistics' = ComputeStatistics(samples_)
    /\ st_pc' = "compute_statistics"
    /\ UNCHANGED <<sorted_values, cp_p, percentile, fd_seconds, formatted,
                   repo_name, report_dwell, report_completion, report>>
    /\ UNCHANGED <<gjVars, lpVars, frtVars, ckVars, rnVars, rbVars, mainVars>>

CallFormatDuration ==
    /\ st_pc = "ready"
    /\ \E seconds_ \in Durations :
           /\ fd_seconds' = seconds_
           /\ formatted' = FormatDuration(seconds_)
    /\ st_pc' = "format_duration"
    /\ UNCHANGED <<sorted_values, cp_p, percentile, cs_samples, statistics,
                   repo_name, report_dwell, report_completion, report>>
    /\ UNCHANGED <<gjVars, lpVars, frtVars, ckVars, rnVars, rbVars, mainVars>>

CallGenerateReport ==
    /\ st_pc = "ready"
    /\ \E name \in RepoNames, dwell \in ReportLists, completion \in ReportLists :
           /\ repo_name' = name
           /\ report_dwell' = dwell
           /\ report_completion' = completion
           /\ report' = GenerateReport(name, dwell, completion)
    /\ st_pc' = "generate_report"
    /\ UNCHANGED <<sorted_values, cp_p, percentile, cs_samples, statistics,
                   fd_seconds, formatted>>
    /\ UNCHANGED <<gjVars, lpVars, frtVars, ckVars, rnVars, rbVars, mainVars>>

StatsInit ==
    /\ GetJsonIdle
    /\ ListPRIdle
    /\ FirstResponseIdle
    /\ CollectIdle
    /\ st_pc = "ready"
    /\ StatsIdle
    /\ MainModuleIdle
    /\ ResolveNameIdle
    /\ ResolveNamesIdle

StatsNext ==
    \/ CallCalculatePercentile
    \/ CallComputeStatistics
    \/ CallFormatDuration
    \/ CallGenerateReport

SpecStats == StatsInit /\ [][StatsNext]_vars

-----------------------------------------------------------------------------
(* Claims about stats, under SpecStats                                     *)

\* The positions of the samples that are present, not NaN and >= 0.
ValidAt(samples_) ==
    {i \in 1..Len(samples_) :
        samples_[i].kind = "num" /\ samples_[i].v >= 0}

\* The values at the positions I in ascending order, the least one first.
RECURSIVE Ascending(_, _)
Ascending(samples_, I) ==
    IF I = {} THEN <<>>
    ELSE LET least == CHOOSE i \in I : \A j \in I : samples_[i].v <= samples_[j].v
         IN  <<samples_[least].v>> \o Ascending(samples_, I \ {least})

Permuted(samples_, f) == [i \in 1..Len(samples_) |-> samples_[f[i]]]

\* C14: compute_statistics counts the samples that are present, not NaN
\* and >= 0, and takes p50, p75 and p90 by calculate_percentile over these
\* in ascending order; every permutation of the input gives the same
\* result, and so does the input without its other samples.
C14_StatisticsOverValidSamples ==
    st_pc = "compute_statistics" =>
        LET valid == ValidAt(cs_samples)
            ascending == Ascending(cs_samples, valid)
        IN  /\ statistics.count = Cardinality(valid)
            /\ statistics.p50 = CalculatePercentile(ascending, 50).value
            /\ statistics.p75 = CalculatePercentile(ascending, 75).value
            /\ statistics.p90 = CalculatePercentile(ascending, 90).value
            /\ \A f \in Permutations(1..Len(cs_samples)) :
                   ComputeStatistics(Permuted(cs_samples, f)) = statistics
            /\ ComputeStatistics([i \in 1..Len(ascending) |-> Num(ascending[i])])
                   = statistics

\* Two valid samples out of order among a NaN and a negative one.
C14_Witness ==
    /\ st_pc = "compute_statistics"
    /\ cs_samples = <<NaN, Num(30), Num(-5), Num(10)>>
    /\ statistics.count = 2
    /\ statistics.p50 = Some(2000)

\* The reference rule, in hundredths: v[lo] + (v[hi] - v[lo]) * (index - lo)
\* with index = (n-1) * p / 100, and Python's positions from 0.
ReferencePercentile(v, percent) ==
    LET n == Len(v)
        index100 == (n - 1) * percent
        lo == index100 \div 100
        hi == IF index100 % 100 = 0 THEN lo ELSE lo + 1
    IN  IF percent = 0 THEN 100 * v[1]
        ELSE IF percent = 100 THEN 100 * v[n]
        ELSE IF lo = hi THEN 100 * v[lo + 1]
        ELSE 100 * v[lo + 1] + (v[hi + 1] - v[lo + 1]) * (index100 - 100 * lo)

C16_EmptyListIsAbsent ==
    (st_pc = "calculate_percentile" /\ sorted_values = <<>>) =>
        percentile = PercentileReturn(None)

\* Texts of durations.
Clock_00_00_00 == <<"0", "0", ":", "0", "0", ":", "0", "0">>
Clock_01_01_01 == <<"0", "1", ":", "0", "1", ":", "0", "1">>
Clock_27_05_09 == <<"2", "7", ":", "0", "5", ":", "0", "9">>
Clock_00_02_00 == <<"0", "0", ":", "0", "2", ":", "0", "0">>
Clock_00_02_30 == <<"0", "0", ":", "0", "2", ":", "3", "0">>
Clock_00_02_48 == <<"0", "0", ":", "0", "2", ":", "4", "8">>
Clock_00_10_00 == <<"0", "0", ":", "1", "0", ":", "0", "0">>
Clock_00_12_30 == <<"0", "0", ":", "1", "2", ":", "3", "0">>
Clock_00_14_00 == <<"0", "0", ":", "1", "4", ":", "0", "0">>

\* The text is HH:MM:SS: digits, two or more for the hours and two each for
\* the minutes and the seconds.
IsClock(text) ==
    /\ Len(text) >= 8
    /\ text[Len(text) - 5] = ":"
    /\ text[Len(text) - 2] = ":"
    /\ \A i \in 1..Len(text) :
           i \notin {Len(text) - 5, Len(text) - 2} => text[i] \in Digits
ClockHours(text) == DigitsValue(SubSeq(text, 1, Len(text) - 6), 0)
ClockMinutes(text) == DigitsValue(SubSeq(text, Len(text) - 4, Len(text) - 3), 0)
ClockSeconds(text) == DigitsValue(SubSeq(text, Len(text) - 1, Len(text)), 0)

\* C17: format_duration returns "n/a" for None, and for a whole number
\* s >= 0 of seconds the text HH:MM:SS with HH = s div 3600 in two or more
\* digits, MM = (s mod 3600) div 60 and SS = s mod 60, both in 00..59, so
\* that HH*3600 + MM*60 + SS = s; 0, 3661 and 97509 give 00:00:00,
\* 01:01:01 and 27:05:09.
C17_FormatDuration ==
    st_pc = "format_duration" =>
        /\ ~fd_seconds.has => formatted = <<"n", "/", "a">>
        /\ (fd_seconds.has /\ fd_seconds.v >= 0 /\ fd_seconds.v % 100 = 0) =>
               LET s == fd_seconds.v \div 100
               IN  /\ IsClock(formatted)
                   /\ ClockHours(formatted) = s \div 3600
                   /\ ClockMinutes(formatted) = (s % 3600) \div 60
                   /\ ClockMinutes(formatted) \in 0..59
                   /\ ClockSeconds(formatted) = s % 60
                   /\ ClockSeconds(formatted) \in 0..59
                   /\ ClockHours(formatted) * 3600 + ClockMinutes(formatted) * 60
                          + ClockSeconds(formatted) = s
                   /\ s = 0 => formatted = Clock_00_00_00
                   /\ s = 3661 => formatted = Clock_01_01_01
                   /\ s = 97509 => formatted = Clock_27_05_09

\* 97509 seconds are 27:05:09.
C17_Witness ==
    /\ st_pc = "format_duration"
    /\ fd_seconds = Some(9750900)
    /\ formatted = Clock_27_05_09

\* The number of the samples that are present, not NaN and >= 0, in digits.
ValidCount(samples_) == Cardinality(ValidAt(samples_))

\* A section of the report from line k: its title, the count of valid
\* samples, then P50, P75 and P90, each n/a exactly when there is no valid
\* sample and HH:MM:SS otherwise.
IsSection(k, title, samples_) ==
    /\ report[k] = [text |-> title, value |-> <<>>]
    /\ report[k + 1].text = "   Samples: "
    /\ DigitsValue(report[k + 1].value, 0) = ValidCount(samples_)
    /\ report[k + 2].text = "   P50: "
    /\ report[k + 3].text = "   P75: "
    /\ report[k + 4].text = "   P90: "
    /\ \A i \in (k + 2)..(k + 4) :
           /\ report[i].value = <<"n", "/", "a">> <=> ValidCount(samples_) = 0
           /\ ValidCount(samples_) # 0 => IsClock(report[i].value)

-----------------------------------------------------------------------------
(* ado_client.AdoClient.list_repositories and resolve_repo_name_to_id      *)

\* The project has at most this many repositories.
MaxRepos == 2

\* str.lower(), over the letters of the model
LowerChar(c) ==
    CASE c = "A" -> "a" [] c = "B" -> "b" [] c = "X" -> "x" [] OTHER -> c
Lower(text) == [i \in 1..Len(text) |-> LowerChar(text[i])]

\* str.strip()
Strip(text) == RStrip(LStrip(text))

\* One element of payload["value"]; "" and <<>> stand for a key that is
\* missing or holds a falsy value.
RepoItem(id, name) == [id |-> id, name |-> name]
RepoId(i) == IF i = 1 THEN "id-1" ELSE IF i = 2 THEN "id-2" ELSE "id-3"
ListingNames == { <<"A", "b">>, <<"a", "b">>, <<"b">>, <<>> }
RepoItems(i) == {RepoItem(id, name) : id \in {RepoId(i), ""}, name \in ListingNames}

\* The listings the server can send: item i carries the id of position i.
Listings ==
    UNION {{listing \in [1..n -> UNION {RepoItems(i) : i \in 1..n}] :
               \A i \in 1..n : listing[i] \in RepoItems(i)} : n \in 0..MaxRepos}

Repository(id, name) == [id |-> id, name |-> name]

\* list_repositories(): the items with an id and a name, in order
RECURSIVE ListRepositories(_)
ListRepositories(items) ==
    IF items = <<>> THEN <<>>
    ELSE LET item == Head(items)
         IN  IF item.id # "" /\ item.name # <<>>
             THEN <<Repository(item.id, item.name)>> \o ListRepositories(Tail(items))
             ELSE ListRepositories(Tail(items))

\* The comparison keeps the case of the repository name.
NameMatches_CaseSensitive(repository, normalized) == repository.name = normalized

\* repository.name.lower() == normalized
NameMatches(repository, normalized) == Lower(repository.name) = normalized

\* normalized = repo_name.strip().lower()
Normalized(name) == Lower(Strip(name))

ResolveReturn(id) == [kind |-> "returned", id |-> id]
RequestFailed == [kind |-> "ApiError: request failed", id |-> ""]
NotFound == [kind |-> "ApiError: not found", id |-> ""]

\* The names a caller asks for.
InputNames ==
    { <<"a", "b">>, <<" ", "A", "B", " ">>, <<"B">>, <<"a">>, <<" ">>, <<>> }

\* The state of a call that has just been entered with name.
ResolveRepoNameEnter(name) ==
    /\ rn_pc = "start"
    /\ rn_repo_name = name
    /\ repositories = <<>>
    /\ repository_index = 1
    /\ rn_fetches = 0
    /\ rn_result = [kind |-> "none", id |-> ""]

\* self.list_repositories() returns
RepositoriesListed ==
    /\ rn_pc = "start"
    /\ \E listing \in Listings : repositories' = ListRepositories(listing)
    /\ rn_fetches' = rn_fetches + 1
    /\ rn_pc' = "search"
    /\ UNCHANGED <<rn_repo_name, repository_index, rn_result>>
    /\ UNCHANGED <<gjVars, lpVars, frtVars, ckVars, stVars, rbVars, mainVars>>

\* self.list_repositories() raises the ApiError of _get_json
RepositoriesFail ==
    /\ rn_pc = "start"
    /\ rn_fetches' = rn_fetches + 1
    /\ rn_pc' = "raised"
    /\ rn_result' = RequestFailed
    /\ UNCHANGED <<rn_repo_name, repositories, repository_index>>
    /\ UNCHANGED <<gjVars, lpVars, frtVars, ckVars, stVars, rbVars, mainVars>>

InRepositories == rn_pc = "search" /\ repository_index <= Len(repositories)

\* for repository in ...: the names differ
RepositoryDiffers ==
    /\ InRepositories
    /\ ~NameMatches(repositories[repository_index], Normalized(rn_repo_name))
    /\ repository_index' = repository_index + 1
    /\ UNCHANGED <<rn_pc, rn_repo_name, repositories, rn_fetches, rn_result>>
    /\ UNCHANGED <<gjVars, lpVars, frtVars, ckVars, stVars, rbVars, mainVars>>

\* for repository in ...: return repository.id
RepositoryMatches ==
    /\ InRepositories
    /\ NameMatches(repositories[repository_index], Normalized(rn_repo_name))
    /\ rn_pc' = "returned"
    /\ rn_result' = ResolveReturn(repositories[repository_index].id)
    /\ UNCHANGED <<rn_repo_name, repositories, repository_index, rn_fetches>>
    /\ UNCHANGED <<gjVars, lpVars, frtVars, ckVars, stVars, rbVars, mainVars>>

\* The loop is over: raise ApiError("Repository ... was not found ...")
RepositoryNotFound ==
    /\ rn_pc = "search"
    /\ repository_index > Len(repositories)
    /\ rn_pc' = "raised"
    /\ rn_result' = NotFound
    /\ UNCHANGED <<rn_repo_name, repositories, repository_index, rn_fetches>>
    /\ UNCHANGED <<gjVars, lpVars, frtVars, ckVars, stVars, rbVars, mainVars>>

ResolveNameInit ==
    /\ GetJsonIdle
    /\ ListPRIdle
    /\ FirstResponseIdle
    /\ CollectIdle
    /\ st_pc = "idle"
    /\ StatsIdle
    /\ MainModuleIdle
    /\ ResolveNamesIdle
    /\ \E name \in InputNames : ResolveRepoNameEnter(name)

ResolveNameNext ==
    \/ RepositoriesListed
    \/ RepositoriesFail
    \/ RepositoryDiffers
    \/ RepositoryMatches
    \/ RepositoryNotFound

SpecResolveName == ResolveNameInit /\ [][ResolveNameNext]_vars

-----------------------------------------------------------------------------
(* Claims about resolve_repo_name_to_id, under SpecResolveName             *)

\* The same text but for the case of its letters.
SameIgnoringCase(a, b) ==
    /\ Len(a) = Len(b)
    /\ \A i \in 1..Len(a) :
           \/ a[i] = b[i]
           \/ {a[i], b[i]} \in {{"a", "A"}, {"b", "B"}, {"x", "X"}}

\* The text without the blanks before its first and after its last other
\* character.
Trimmed(text) ==
    LET inked == {i \in 1..Len(text) : text[i] # " "}
    IN  IF inked = {} THEN <<>>
        ELSE SubSeq(text, CHOOSE i \in inked : \A j \in inked : i <= j,
                          CHOOSE i \in inked : \A j \in inked : i >= j)

\* The positions of the listed repositories whose name is the input.
MatchingAt(listed, name) ==
    {i \in 1..Len(listed) : SameIgnoringCase(listed[i].name, Trimmed(name))}

\* C19: resolve_repo_name_to_id fetches the listing, returns the id of the
\* first repository in it whose name is the trimmed input but for case,
\* raises the not-found ApiError exactly when there is none, and never
\* returns an empty id.
C19_FirstMatchOrNotFound ==
    LET matching == MatchingAt(repositories, rn_repo_name)
    IN  /\ rn_pc \in {"search", "returned", "raised"} => rn_fetches = 1
        /\ rn_pc = "returned" =>
               /\ matching # {}
               /\ \E i \in matching :
                      /\ \A j \in matching : i <= j
                      /\ rn_result = ResolveReturn(repositories[i].id)
               /\ rn_result.id # ""
        /\ rn_result = NotFound => (rn_pc = "raised" /\ matching = {})
        /\ (rn_pc \in {"returned", "raised"} /\ rn_result # RequestFailed
            /\ matching = {}) => rn_result = NotFound

\* " AB " resolved to the second of two repositories named "b" and "Ab".
C19_Witness ==
    /\ rn_pc = "returned"
    /\ rn_repo_name = <<" ", "A", "B", " ">>
    /\ Len(repositories) = 2
    /\ repositories[2].name = <<"A", "b">>
    /\ rn_result = ResolveReturn("id-2")

-----------------------------------------------------------------------------
(* main.AdoClient.resolve_repo_names_to_ids and the report of unresolved   *)
(* names in main.main                                                      *)

\* A batch has at most this many names.
MaxNames == 2

\* dict: d[k] = v, d.get(k) with "" for None
Put(d, k, v) == [x \in (DOMAIN d) \cup {k} |-> IF x = k THEN v ELSE d[x]]
Get(d, k) == IF k \in DOMAIN d THEN d[k] ELSE ""

\* {repo.get("name", "").lower(): repo.get("id") for repo in repositories
\*  if repo.get("name") and repo.get("id")}: a later repository replaces an
\* earlier one of the same key
RECURSIVE ReposByName(_, _)
ReposByName(items, acc) ==
    IF items = <<>> THEN acc
    ELSE LET repo == Head(items)
         IN  IF repo.name # <<>> /\ repo.id # ""
             THEN ReposByName(Tail(items), Put(acc, Lower(repo.name), repo.id))
             ELSE ReposByName(Tail(items), acc)

\* text.split("/")[-1]
RECURSIVE LastSegment(_)
LastSegment(text) ==
    IF \A i \in 1..Len(text) : text[i] # "/" THEN text
    ELSE LastSegment(Tail(text))

\* The part before the first "/" is tried.
FallbackName_First(normalized_name) ==
    LET slashes == {i \in 1..Len(normalized_name) : normalized_name[i] = "/"}
    IN  IF slashes = {} THEN normalized_name
        ELSE SubSeq(normalized_name, 1,
                    (CHOOSE i \in slashes : \A j \in slashes : i <= j) - 1)

\* fallback_name = normalized_name.split("/")[-1]
FallbackName(normalized_name) == LastSegment(normalized_name)

\* The names given on the command line.
BatchNames ==
    { <<"a", "b">>, <<" ", "A", "B", " ">>, <<"x", "/", "B">>,
      <<"A", "b", "/">>, <<"b", "/", "x">>, <<"x">>, <<" ">> }

NameLists == SeqsUpTo(BatchNames, MaxNames)

\* The state of a call that has just been entered with names.
ResolveRepoNamesEnter(names) ==
    /\ rb_pc = "start"
    /\ repo_names = names
    /\ repos_by_name = EmptyDict
    /\ name_index = 1
    /\ resolved = EmptyDict
    /\ unresolved = <<>>
    /\ rb_fetches = 0
    /\ rb_listing = <<>>

\* repositories = self.list_repositories(...); repos_by_name = {...}
ReposByNameBuilt ==
    /\ rb_pc = "start"
    /\ \E listing \in Listings :
           /\ rb_listing' = listing
           /\ repos_by_name' = ReposByName(listing, EmptyDict)
    /\ rb_fetches' = rb_fetches + 1
    /\ rb_pc' = "names"
    /\ UNCHANGED <<repo_names, name_index, resolved, unresolved>>
    /\ UNCHANGED <<gjVars, lpVars, frtVars, ckVars, stVars, rnVars, mainVars>>

\* self.list_repositories(...) raises: the exception leaves the call
ListRepositoriesRaises ==
    /\ rb_pc = "start"
    /\ rb_fetches' = rb_fetches + 1
    /\ rb_pc' = "raised"
    /\ UNCHANGED <<repo_names, repos_by_name, name_index, resolved, unresolved,
                   rb_listing>>
    /\ UNCHANGED <<gjVars, lpVars, frtVars, ckVars, stVars, rnVars, mainVars>>

InNames == rb_pc = "names" /\ name_index <= Len(repo_names)

\* if not normalized_name: continue
EmptyNameSkipped ==
    /\ InNames
    /\ Strip(repo_names[name_index]) = <<>>
    /\ name_index' = name_index + 1
    /\ UNCHANGED <<rb_pc, repo_names, repos_by_name, resolved, unresolved,
                   rb_fetches, rb_listing>>
    /\ UNCHANGED <<gjVars, lpVars, frtVars, ckVars, stVars, rnVars, mainVars>>

\* if repo_id: resolved[normalized_name] = repo_id; continue
FullNameResolved ==
    /\ InNames
    /\ \E normalized_name \in {Strip(repo_names[name_index])} :
           /\ normalized_name # <<>>
           /\ Get(repos_by_name, Lower(normalized_name)) # ""
           /\ resolved' = Put(resolved, normalized_name,
                              Get(repos_by_name, Lower(normalized_name)))
    /\ name_index' = name_index + 1
    /\ UNCHANGED <<rb_pc, repo_names, repos_by_name, unresolved, rb_fetches,
                   rb_listing>>
    /\ UNCHANGED <<gjVars, lpVars, frtVars, ckVars, stVars, rnVars, mainVars>>

\* if fallback_id: resolved[normalized_name] = fallback_id
FallbackResolved ==
    /\ InNames
    /\ \E normalized_name \in {Strip(repo_names[name_index])} :
           /\ normalized_name # <<>>
           /\ Get(repos_by_name, Lower(normalized_name)) = ""
           /\ Get(repos_by_name, Lower(FallbackName(normalized_name))) # ""
           /\ resolved' = Put(resolved, normalized_name,
                  Get(repos_by_name, Lower(FallbackName(normalized_name))))
    /\ name_index' = name_index + 1
    /\ UNCHANGED <<rb_pc, repo_names, repos_by_name, unresolved, rb_fetches,
                   rb_listing>>
    /\ UNCHANGED <<gjVars, lpVars, frtVars, ckVars, stVars, rnVars, mainVars>>

\* Neither lookup finds an id: the loop goes on with the next name
NameMissed ==
    /\ InNames
    /\ \E normalized_name \in {Strip(repo_names[name_index])} :
           /\ normalized_name # <<>>
           /\ Get(repos_by_name, Lower(normalized_name)) = ""
           /\ Get(repos_by_name, Lower(FallbackName(normalized_name))) = ""
    /\ name_index' = name_index + 1
    /\ UNCHANGED <<rb_pc, repo_names, repos_by_name, resolved, unresolved,
                   rb_fetches, rb_listing>>
    /\ UNCHANGED <<gjVars, lpVars, frtVars, ckVars, stVars, rnVars, mainVars>>

\* return resolved
ResolvedReturned ==
    /\ rb_pc = "names"
    /\ name_index > Len(repo_names)
    /\ rb_pc' = "returned"
    /\ UNCHANGED <<repo_names, repos_by_name, name_index, resolved, unresolved,
                   rb_fetches, rb_listing>>
    /\ UNCHANGED <<gjVars, lpVars, frtVars, ckVars, stVars, rnVars, mainVars>>

\* name.strip() and name.strip() not in resolved_repo_ids
IsUnresolved(name) == Strip(name) # <<>> /\ Strip(name) \notin DOMAIN resolved

\* main: unresolved = [name for name in args.repo_name if ...]; the warning
UnresolvedReported ==
    /\ rb_pc = "returned"
    /\ unresolved' = SelectSeq(repo_names, IsUnresolved)
    /\ rb_pc' = "reported"
    /\ UNCHANGED <<repo_names, repos_by_name, name_index, resolved, rb_fetches,
                   rb_listing>>
    /\ UNCHANGED <<gjVars, lpVars, frtVars, ckVars, stVars, rnVars, mainVars>>

ResolveNamesInit ==
    /\ GetJsonIdle
    /\ ListPRIdle
    /\ FirstResponseIdle
    /\ CollectIdle
    /\ st_pc = "idle"
    /\ StatsIdle
    /\ MainModuleIdle
    /\ ResolveNameIdle
    /\ \E names \in NameLists : ResolveRepoNamesEnter(names)

ResolveNamesNext ==
    \/ ReposByNameBuilt
    \/ ListRepositoriesRaises
    \/ EmptyNameSkipped
    \/ FullNameResolved
    \/ FallbackResolved
    \/ NameMissed
    \/ ResolvedReturned
    \/ UnresolvedReported

SpecResolveNames == ResolveNamesInit /\ [][ResolveNamesNext]_vars

-----------------------------------------------------------------------------
(* Claims about resolve_repo_names_to_ids, under SpecResolveNames          *)

\* The repositories of the listing that have a name and an id.
Usable(listing) ==
    {i \in 1..Len(listing) : listing[i].name # <<>> /\ listing[i].id # ""}

\* The ids of the usable repositories named text but for case.
IdsNamed(listing, text) ==
    {listing[i].id : i \in {j \in Usable(listing) :
                               SameIgnoringCase(listing[j].name, text)}}

\* The text after the last "/" of text, all of it when there is none.
FinalSegment(text) ==
    LET slashes == {i \in 1..Len(text) : text[i] = "/"}
    IN  IF slashes = {} THEN text
        ELSE SubSeq(text, (CHOOSE i \in slashes : \A j \in slashes : i >= j) + 1,
                    Len(text))

\* The trimmed name matches in full or by its final segment.
Resolvable(listing, name) ==
    /\ Trimmed(name) # <<>>
    /\ \/ IdsNamed(listing, Trimmed(name)) # {}
       \/ IdsNamed(listing, FinalSegment(Trimmed(name))) # {}

\* C20: resolve_repo_names_to_ids fetches the listing once and returns a
\* mapping whose keys are exactly the trimmed non-empty inputs that match a
\* repository name but for case, in full or else by the final segment, a
\* miss ending nothing; main then reports exactly the non-empty inputs
\* that are not keys.
C20_BatchResolution ==
    rb_pc \in {"returned", "reported"} =>
        /\ rb_fetches = 1
        /\ name_index = Len(repo_names) + 1
        /\ DOMAIN resolved =
               {Trimmed(repo_names[i]) :
                    i \in {j \in 1..Len(repo_names) :
                              Resolvable(rb_listing, repo_names[j])}}
        /\ \A k \in DOMAIN resolved :
               IF IdsNamed(rb_listing, k) # {}
               THEN resolved[k] \in IdsNamed(rb_listing, k)
               ELSE resolved[k] \in IdsNamed(rb_listing, FinalSegment(k))
        /\ rb_pc = "reported" =>
               /\ \A i \in 1..Len(unresolved) :
                      /\ Trimmed(unresolved[i]) # <<>>
                      /\ Trimmed(unresolved[i]) \notin DOMAIN resolved
               /\ \A i \in 1..Len(repo_names) :
                      (Trimmed(repo_names[i]) # <<>>
                       /\ Trimmed(repo_names[i]) \notin DOMAIN resolved)
                      => \E j \in 1..Len(unresolved) : unresolved[j] = repo_names[i]

\* A miss, then a name resolved by its final segment; the miss is reported.
C20_Witness ==
    /\ rb_pc = "reported"
    /\ repo_names = << <<"x">>, <<"x", "/", "B">> >>
    /\ DOMAIN resolved = { <<"x", "/", "B">> }
    /\ unresolved = << <<"x">> >>

-----------------------------------------------------------------------------
(* Termination of _get_json.  Every self._session.get call ends, with a    *)
(* response or with an exception (the call carries a timeout), and the      *)
(* thread goes on: the loop takes its next step whenever it has one.        *)

SpecGetJsonFair == SpecGetJson /\ WF_vars(GetJsonNext)

\* C26: whatever the outcomes of the requests, _get_json ends after 1 to 5
\* requests; while it runs every request so far was followed by one sleep,
\* at its end the last request was followed by none, and every sleep lasts
\* 1 to 30 seconds.
C26_EndsWithOneSleepLess ==
    /\ [](/\ \A i \in 1..Len(sleeps) : sleeps[i] \in 1..MAX_BACKOFF_SECONDS
          /\ gj_pc = "loop" =>
                 /\ get_count \in 0..(MAX_RETRIES - 1)
                 /\ Len(sleeps) = get_count
          /\ Ended =>
                 /\ get_count \in 1..MAX_RETRIES
                 /\ Len(sleeps) = get_count - 1)
    /\ <>Ended

\* A call that ended with its fifth request, after transport failures and
\* retryable responses, with four sleeps.
C26_Witness ==
    /\ Ended
    /\ get_count = 5
    /\ Len(sleeps) = 4
    /\ \E i, j \in 1..4 : trace[i] = "retryable" /\ trace[j] \in Exceptions
    /\ gj_pc = "returned"


-----------------------------------------------------------------------------
(* The whole listing, checked under SpecListPRFair                         *)

SpecListPRFair == SpecListPR /\ WF_vars(ListPRNext)

\* The server holds well-formed pull requests and honours $top and $skip:
\* the k-th page it has sent holds the items 100*(k-1), 100*(k-1)+1, ...
WellFormedServer ==
    \A k \in 1..Len(pages) : \A i \in 1..Len(pages[k]) :
        pages[k][i] = GoodItem(PULL_REQUEST_PAGE_SIZE * (k - 1) + i - 1)

ServerCount == Len(AllItems)

\* C27: against a server holding N well-formed pull requests the listing
\* ends; when it returns it has made exactly floor(N/100) + 1 successful
\* page requests and returns each of the N pull requests once, in server
\* order (for N a multiple of 100 the last page is empty); every page
\* request starts _get_json afresh, with its own five attempts; the loop
\* leaves only by a short page or by ApiError.
C27_WholeListing ==
    /\ [](WellFormedServer =>
            /\ lp_pc = "returned" =>
                   /\ Len(pages) = (ServerCount \div 100) + 1
                   /\ Len(calls) = Len(pages)
                   /\ Len(lp_result.prs) = ServerCount
                   /\ \A j \in 1..ServerCount :
                          lp_result.prs[j] = ProcessItem(GoodItem(j - 1)).pr
                   /\ Len(Last(pages)) < 100
                   /\ (ServerCount % 100 = 0) => Last(pages) = <<>>
            /\ lp_pc = "raised" =>
                   /\ lp_result = [kind |-> "ApiError", prs |-> <<>>]
                   /\ Len(calls) = Len(pages) + 1
            /\ lp_pc \in {"page", "fetch"} =>
                   \A k \in 1..Len(pages) : Len(pages[k]) = 100
            /\ lp_pc = "fetch" => get_count \in 0..MAX_RETRIES)
    /\ [][(lp_pc = "page" /\ lp_pc' = "fetch") =>
              (attempt' = 1 /\ get_count' = 0 /\ sleeps' = <<>>)]_vars
    /\ <>(lp_pc \in {"returned", "raised"})

\* 200 pull requests: two full pages and an empty third one, which came at
\* the fifth attempt of its own request.
C27_Witness ==
    /\ WellFormedServer
    /\ lp_pc = "returned"
    /\ ServerCount = 200
    /\ Len(pages) = 3 /\ pages[3] = <<>>
    /\ Len(calls) = 3
    /\ get_count = 5 /\ Len(sleeps) = 4
    /\ lp_result.prs[200].pullRequestId = 199



-----------------------------------------------------------------------------
(* The order of the percentiles, checked under SpecStats                   *)

\* a <= b on floats: False whenever one of them is nan
Leq(a, b) == a # NotANumber /\ b # NotANumber /\ a <= b

\* The least and the greatest valid sample of samples_, in hundredths.
MinValid(samples_) ==
    Hundredths(CHOOSE x \in {samples_[i].v : i \in ValidAt(samples_)} :
                   \A i \in ValidAt(samples_) : x <= samples_[i].v)
MaxValid(samples_) ==
    Hundredths(CHOOSE x \in {samples_[i].v : i \in ValidAt(samples_)} :
                   \A i \in ValidAt(samples_) : samples_[i].v <= x)

PercentilesOrdered ==
    /\ statistics.p50.has /\ statistics.p75.has /\ statistics.p90.has
    /\ Leq(MinValid(cs_samples), statistics.p50.v)
    /\ Leq(statistics.p50.v, statistics.p75.v)
    /\ Leq(statistics.p75.v, statistics.p90.v)
    /\ Leq(statistics.p90.v, MaxValid(cs_samples))
    /\ Cardinality(ValidAt(cs_samples)) = 1 =>
           /\ statistics.p50.v = MinValid(cs_samples)
           /\ statistics.p75.v = MinValid(cs_samples)
           /\ statistics.p90.v = MinValid(cs_samples)

\* C28: for every sample list with at least one valid (present, not NaN,
\* >= 0) sample, compute_statistics yields
\* min(valid) <= p50 <= p75 <= p90 <= max(valid); with a single valid sample
\* the three percentiles equal that sample.
C28_PercentilesOrdered ==
    (st_pc = "compute_statistics" /\ ValidAt(cs_samples) # {}) =>
        PercentilesOrdered

\* The order holds whenever no two valid samples are infinite.
C28_OrderedUnlessTwoInfinite ==
    (/\ st_pc = "compute_statistics"
     /\ ValidAt(cs_samples) # {}
     /\ Cardinality({i \in ValidAt(cs_samples) : cs_samples[i].v = Infinity}) <= 1) =>
        PercentilesOrdered



-----------------------------------------------------------------------------
(* The client calls of a batch, checked under SpecCollect                  *)

\* The positions of the list_threads calls in the log of the client.
ThreadsCallsAt ==
    {k \in 1..Len(client_calls) : client_calls[k].op = "list_threads"}

\* The pull request (its position in prs) that call k was made for: the
\* calls from one list_threads call up to the next belong together.
BlockOf(k) == Cardinality({j \in ThreadsCallsAt : j <= k})

\* The thread ids asked for in block i, in call order.
RECURSIVE ThreadIdsFrom(_, _)
ThreadIdsFrom(k, i) ==
    IF k > Len(client_calls) THEN <<>>
    ELSE IF BlockOf(k) = i /\ client_calls[k].op = "list_thread_comments"
    THEN <<client_calls[k].thread_id>> \o ThreadIdsFrom(k + 1, i)
    ELSE ThreadIdsFrom(k + 1, i)
AskedThreadIds(i) == ThreadIdsFrom(1, i)

Ids(ts) == [j \in 1..Len(ts) |-> ts[j].id]

\* The pull requests whose list_threads call has been made.
Started ==
    IF ck_pc = "dwell" /\ frt_pc = "start" THEN pr_index - 1
    ELSE IF ck_pc \in {"loop", "returned"} THEN pr_index - 1
    ELSE pr_index

C25_NoPartialResult ==
    /\ []((ck_pc = "dwell" /\ frt_pc = "raised") =>
            /\ frt_result = FrtRaise
            /\ ck_result = NoSamples)
    /\ [](ck_pc = "raised" =>
            /\ ck_result = [kind |-> "ApiError", dwell |-> <<>>, completion |-> <<>>]
            /\ frt_pc = "raised"
            /\ pr_index <= Len(prs)
            /\ Cardinality(ThreadsCallsAt) = pr_index
            /\ Last(client_calls).pr_id = prs[pr_index].pullRequestId
            /\ Len(dwell_results) = pr_index - 1)
    /\ [][ck_pc = "raised" => (ck_pc' = "raised" /\ client_calls' = client_calls
                                /\ ck_result' = ck_result)]_vars
    /\ [][(ck_pc # "raised" /\ ck_pc' = "raised") =>
              (ck_pc = "dwell" /\ frt_pc = "raised")]_vars

\* The second of two pull requests fails at the comments of its thread; the
\* first one had given a dwell sample and a completion sample.
C25_Witness ==
    /\ ck_pc = "raised"
    /\ Len(prs) = 2 /\ pr_index = 2
    /\ dwell_times # <<>> /\ completion_times # <<>>
    /\ Last(client_calls).op = "list_thread_comments"
    /\ ck_result.kind = "ApiError" /\ ck_result.dwell = <<>>



-----------------------------------------------------------------------------
(* main.AdoClient._get: the client of the installed entry point            *)

\* for attempt in range(1, 6)
GET_ATTEMPTS == 5
\* time.sleep(min(30, ...))
GET_MAX_SLEEP == 30

\* The Retry-After header of a response: absent, the text of an integer, or
\* a text int() cannot read (an HTTP date).
NoRetryAfter == [kind |-> "absent", v |-> 0]
IntRetryAfter(n) == [kind |-> "int", v |-> n]
DateRetryAfter == [kind |-> "date", v |-> 0]
MainRetryAfterHeaders ==
    {NoRetryAfter, DateRetryAfter} \cup {IntRetryAfter(n) : n \in {-1, 0, 2, 7, 31}}

MainStatuses == {200, 302, 401, 404, 429, 500, 501, 502, 503, 504}

\* What session.get can give: a response (its body JSON or not), or an
\* exception of requests.
MainOutcomes ==
    [kind : {"response"}, status : MainStatuses, retry_after : MainRetryAfterHeaders,
     json : BOOLEAN]
    \cup {[kind |-> "ConnectionError", status |-> 0, retry_after |-> NoRetryAfter,
           json |-> FALSE]}

\* 5xx is retryable as a whole.
IsMainRetryable_Any5xx(status) == status = 429 \/ status >= 500

\* response.status_code in (429, 500, 502, 503, 504)
IsMainRetryable(status) == status \in {429, 500, 502, 503, 504}

\* int(response.headers.get("Retry-After", "1")): the number, or ValueError
RetryAfterSeconds(retry_after) ==
    CASE retry_after.kind = "absent" -> [kind |-> "int", v |-> 1]
      [] retry_after.kind = "int" -> [kind |-> "int", v |-> retry_after.v]
      [] OTHER -> [kind |-> "ValueError", v |-> 0]

\* min(30, retry_after * attempt)
MainSleepSeconds(retry_after, attempt_) == Min(GET_MAX_SLEEP, retry_after * attempt_)

\* response.raise_for_status() raises HTTPError
RaisesForStatus(status) == 400 <= status /\ status < 600

MainGetEnter ==
    /\ mg_pc = "loop"
    /\ mg_attempt = 1
    /\ mg_response = NoMainResponse
    /\ mg_requests = 0
    /\ mg_sleeps = <<>>
    /\ mg_result = "none"

MainGetReceives(o) ==
    /\ mg_pc = "loop"
    /\ mg_attempt <= GET_ATTEMPTS
    /\ o.kind = "response"
    /\ mg_requests' = mg_requests + 1
    /\ mg_response' = [status |-> o.status, retry_after |-> o.retry_after]

\* session.get raises: nothing catches it
MainGetTransportError(o) ==
    /\ mg_pc = "loop"
    /\ mg_attempt <= GET_ATTEMPTS
    /\ o.kind = "ConnectionError"
    /\ mg_requests' = mg_requests + 1
    /\ mg_pc' = "raised"
    /\ mg_result' = "ConnectionError"
    /\ UNCHANGED <<mg_attempt, mg_response, mg_sleeps>>

\* a retryable status: sleep, continue
MainGetSleepAndRetry(o) ==
    /\ MainGetReceives(o)
    /\ IsMainRetryable(o.status)
    /\ mg_attempt < GET_ATTEMPTS
    /\ \E retry_after \in {RetryAfterSeconds(o.retry_after)} :
           /\ retry_after.kind = "int"
           /\ MainSleepSeconds(retry_after.v, mg_attempt) >= 0
           /\ mg_sleeps' = Append(mg_sleeps, MainSleepSeconds(retry_after.v, mg_attempt))
    /\ mg_attempt' = mg_attempt + 1
    /\ UNCHANGED <<mg_pc, mg_result>>

\* a retryable status on the last pass: sleep, the loop is over,
\* response.raise_for_status() raises
MainGetSleepAndRaise(o) ==
    /\ MainGetReceives(o)
    /\ IsMainRetryable(o.status)
    /\ mg_attempt = GET_ATTEMPTS
    /\ \E retry_after \in {RetryAfterSeconds(o.retry_after)} :
           /\ retry_after.kind = "int"
           /\ MainSleepSeconds(retry_after.v, mg_attempt) >= 0
           /\ mg_sleeps' = Append(mg_sleeps, MainSleepSeconds(retry_after.v, mg_attempt))
    /\ mg_attempt' = mg_attempt + 1
    /\ mg_pc' = IF RaisesForStatus(o.status) THEN "raised" ELSE "returned"
    /\ mg_result' = IF RaisesForStatus(o.status) THEN "HTTPError" ELSE "returned"

\* a retryable status whose Retry-After int() cannot read: ValueError
MainGetBadRetryAfter(o) ==
    /\ MainGetReceives(o)
    /\ IsMainRetryable(o.status)
    /\ RetryAfterSeconds(o.retry_after).kind = "ValueError"
    /\ mg_pc' = "raised"
    /\ mg_result' = "ValueError"
    /\ UNCHANGED <<mg_attempt, mg_sleeps>>

\* a retryable status with a negative Retry-After: time.sleep raises
\* ValueError (sleep length must be non-negative)
MainGetNegativeSleep(o) ==
    /\ MainGetReceives(o)
    /\ IsMainRetryable(o.status)
    /\ \E retry_after \in {RetryAfterSeconds(o.retry_after)} :
           /\ retry_after.kind = "int"
           /\ MainSleepSeconds(retry_after.v, mg_attempt) < 0
    /\ mg_pc' = "raised"
    /\ mg_result' = "ValueError"
    /\ UNCHANGED <<mg_attempt, mg_sleeps>>

\* response.raise_for_status() raises HTTPError
MainGetStatusError(o) ==
    /\ MainGetReceives(o)
    /\ ~IsMainRetryable(o.status)
    /\ RaisesForStatus(o.status)
    /\ mg_pc' = "raised"
    /\ mg_result' = "HTTPError"
    /\ UNCHANGED <<mg_attempt, mg_sleeps>>

\* return response.json(), dict(response.headers)
MainGetReturn(o) ==
    /\ MainGetReceives(o)
    /\ ~IsMainRetryable(o.status)
    /\ ~RaisesForStatus(o.status)
    /\ o.json
    /\ mg_pc' = "returned"
    /\ mg_result' = "returned"
    /\ UNCHANGED <<mg_attempt, mg_sleeps>>

\* response.json() raises (a ValueError): nothing catches it
MainGetInvalidJson(o) ==
    /\ MainGetReceives(o)
    /\ ~IsMainRetryable(o.status)
    /\ ~RaisesForStatus(o.status)
    /\ ~o.json
    /\ mg_pc' = "raised"
    /\ mg_result' = "ValueError"
    /\ UNCHANGED <<mg_attempt, mg_sleeps>>

MainGetAlone == UNCHANGED <<gjVars, lpVars, frtVars, ckVars, stVars, rnVars, rbVars, kpVars, mnVars>>

MainGetInit ==
    /\ GetJsonIdle
    /\ ListPRIdle
    /\ FirstResponseIdle
    /\ CollectIdle
    /\ st_pc = "idle"
    /\ StatsIdle
    /\ ResolveNameIdle
    /\ ResolveNamesIdle
    /\ RepoKpisIdle
    /\ MainIdle
    /\ MainGetEnter

MainGetNext ==
    \/ \E o \in MainOutcomes : MainGetTransportError(o) /\ MainGetAlone
    \/ \E o \in MainOutcomes : MainGetSleepAndRetry(o) /\ MainGetAlone
    \/ \E o \in MainOutcomes : MainGetSleepAndRaise(o) /\ MainGetAlone
    \/ \E o \in MainOutcomes : MainGetBadRetryAfter(o) /\ MainGetAlone
    \/ \E o \in MainOutcomes : MainGetNegativeSleep(o) /\ MainGetAlone
    \/ \E o \in MainOutcomes : MainGetStatusError(o) /\ MainGetAlone
    \/ \E o \in MainOutcomes : MainGetReturn(o) /\ MainGetAlone
    \/ \E o \in MainOutcomes : MainGetInvalidJson(o) /\ MainGetAlone

SpecMainGet == MainGetInit /\ [][MainGetNext]_vars

-----------------------------------------------------------------------------
(* Claims about main.AdoClient._get, checked under SpecMainGet             *)

\* This step receives a response.
MainGetResponded == mg_requests' = mg_requests + 1 /\ mg_result' # "ConnectionError"

\* This step sleeps for the seconds of the last response's Retry-After (1
\* without one) times attempt, at most 30.
SleepsByRetryAfter ==
    /\ Len(mg_sleeps') = Len(mg_sleeps) + 1
    /\ LET header == mg_response'.retry_after
           seconds == IF header.kind = "int" THEN header.v ELSE 1
       IN  Last(mg_sleeps') = Min(30, seconds * mg_attempt)

\* C30: main.AdoClient._get makes at most 5 requests; only 429, 500, 502,
\* 503 and 504 are retried; after every retryable response, the fifth
\* included, it sleeps min(30, Retry-After * attempt) seconds (1 for a
\* missing header), so an exhausted call has made 5 requests and 5 sleeps
\* when it raises; any other status >= 400 raises at once, without a sleep.
C30_FiveRequestsFiveSleeps ==
    /\ [](mg_requests <= 5 /\ Len(mg_sleeps) <= mg_requests)
    /\ [][(MainGetResponded
            /\ mg_response'.status \in {429, 500, 502, 503, 504}) =>
               SleepsByRetryAfter]_vars
    /\ [][(MainGetResponded
            /\ mg_response'.status \notin {429, 500, 502, 503, 504}) =>
               /\ mg_sleeps' = mg_sleeps
               /\ mg_pc' \in {"returned", "raised"}
               /\ mg_response'.status >= 400 =>
                      (mg_pc' = "raised" /\ mg_result' = "HTTPError")]_vars
    /\ []((/\ mg_pc = "raised" /\ mg_requests = 5
            /\ mg_result # "ConnectionError"
            /\ mg_response.status \in {429, 500, 502, 503, 504}) =>
               (Len(mg_sleeps) = 5 /\ mg_result = "HTTPError"))

\* What holds: C30 for the responses whose Retry-After is missing or a
\* natural number.
C30_WithNaturalRetryAfter ==
    /\ [](mg_requests <= 5 /\ Len(mg_sleeps) <= mg_requests)
    /\ [][(/\ MainGetResponded
            /\ mg_response'.status \in {429, 500, 502, 503, 504}
            /\ mg_response'.retry_after.kind # "date"
            /\ mg_response'.retry_after.v >= 0) =>
               SleepsByRetryAfter]_vars
    /\ [][(MainGetResponded
            /\ mg_response'.status \notin {429, 500, 502, 503, 504}) =>
               /\ mg_sleeps' = mg_sleeps
               /\ mg_pc' \in {"returned", "raised"}
               /\ mg_response'.status >= 400 =>
                      (mg_pc' = "raised" /\ mg_result' = "HTTPError")]_vars
    /\ []((/\ mg_pc = "raised" /\ mg_requests = 5
            /\ mg_result = "HTTPError"
            /\ mg_response.status \in {429, 500, 502, 503, 504}) =>
               Len(mg_sleeps) = 5)



-----------------------------------------------------------------------------
(* ado_client.AdoClient.list_thread_comments (the decoding of the payload) *)
(* and main.compute_repo_kpis with main.first_non_author_comment_time.     *)
(* main reads the dicts of the service; their timestamps are UTC texts,    *)
(* taken as instants.                                                       *)

\* An item of payload["value"]: (item.get("author") or {}).get("id") and
\* item.get("publishedDate").
CommentItem(author_id, publishedDate) ==
    [author_id |-> author_id, publishedDate |-> publishedDate]

CommentItems ==
    {CommentItem(a, d) :
        a \in {NoId, Some(""), Some("author"), Some("reviewer")},
        d \in {NoText, Some(IsoText("Z", 1, 0)), Some(InvalidText)}}

\* list_thread_comments, from item i on: _parse_datetime runs before the
\* author test, so its ValueError leaves the call whatever the author.
RECURSIVE DecodeComments(_, _, _)
DecodeComments(items, i, comments) ==
    IF i > Len(items) THEN [kind |-> "returned", comments |-> comments]
    ELSE LET author_id == items[i].author_id
             published_date == ParseDatetime(items[i].publishedDate)
         IN  IF published_date.kind = "ValueError"
             THEN [kind |-> "ValueError", comments |-> <<>>]
             ELSE IF ~Truthy(author_id)
             THEN DecodeComments(items, i + 1, comments)
             ELSE DecodeComments(items, i + 1,
                      Append(comments,
                             Comment(author_id.v,
                                     IF published_date.kind = "ok"
                                     THEN Some(published_date.utc) ELSE None)))

\* A pull request can have this many threads with comments.
MaxRepoThreads == 2
\* compute_repo_kpis gets at most this many pull requests.
MaxRepoPRs == 2

\* A pull-request dict of the service.
PullRequestDict(id, created_by_id, creationDate, status, closedDate) ==
    [pullRequestId |-> id, created_by_id |-> created_by_id,
     creationDate |-> creationDate, status |-> status, closedDate |-> closedDate]

\* Created at 2 by "author": completed and closed at 5, or at 1 (before it
\* was created); active; without creationDate; with status "Completed";
\* without createdBy; without pullRequestId.
PullRequestDicts ==
    { PullRequestDict(Some(1), Some("author"), Some(2), Some("completed"), Some(5)),
      PullRequestDict(Some(1), Some("author"), Some(2), Some("completed"), Some(1)),
      PullRequestDict(Some(1), Some("author"), Some(2), Some("active"), None),
      PullRequestDict(Some(1), Some("author"), None, Some("completed"), Some(5)),
      PullRequestDict(Some(1), Some("author"), Some(2), Some("Completed"), Some(5)),
      PullRequestDict(Some(1), NoId, Some(2), NoId, Some(5)),
      PullRequestDict(None, Some("author"), Some(2), Some("completed"), None) }

\* A comment dict: (comment.get("author") or {}).get("id") and
\* comment.get("publishedDate").
CommentDict(commenter_id, timestamp) ==
    [commenter_id |-> commenter_id, timestamp |-> timestamp]

CommentDicts ==
    { CommentDict(NoId, Some(1)), CommentDict(Some("author"), Some(1)),
      CommentDict(Some("reviewer"), Some(3)), CommentDict(Some("reviewer"), None) }

\* A thread dict with the comments the client lists for it.
ThreadDict(id, comments) == [id |-> id, comments |-> comments]

\* The threads of a pull request: none, one, or a thread without id and
\* one with.
ThreadDictLists ==
    {<<>>}
    \cup {<<ThreadDict(Some(1), cl)>> : cl \in SeqsUpTo(CommentDicts, 2)}
    \cup {<<ThreadDict(None, <<CommentDict(Some("reviewer"), Some(1))>>),
             ThreadDict(Some(2), cl)>> : cl \in SeqsUpTo(CommentDicts, MaxRepoThreads)}

\* The author test skips every comment that is not by a known other user.
SkipsAuthor_Strict(author_id, commenter_id) ==
    ~commenter_id.has \/ (author_id.has /\ commenter_id = author_id)

\* if author_id and commenter_id == author_id: continue
SkipsAuthor(author_id, commenter_id) ==
    Truthy(author_id) /\ commenter_id = author_id

\* for comment in client.list_thread_comments(...), from comment i on
RECURSIVE ScanCommentDicts(_, _, _, _)
ScanCommentDicts(comments, i, earliest, author_id) ==
    IF i > Len(comments) THEN earliest
    ELSE LET timestamp == comments[i].timestamp
             commenter_id == comments[i].commenter_id
         IN  IF ~timestamp.has
             THEN ScanCommentDicts(comments, i + 1, earliest, author_id)
             ELSE IF SkipsAuthor(author_id, commenter_id)
             THEN ScanCommentDicts(comments, i + 1, earliest, author_id)
             ELSE IF ~earliest.has \/ timestamp.v < earliest.v
             THEN ScanCommentDicts(comments, i + 1, timestamp, author_id)
             ELSE ScanCommentDicts(comments, i + 1, earliest, author_id)

\* for thread in client.list_threads(...), from thread i on
RECURSIVE ScanThreadDicts(_, _, _, _)
ScanThreadDicts(thread_dicts, i, earliest, author_id) ==
    IF i > Len(thread_dicts) THEN earliest
    ELSE IF ~thread_dicts[i].id.has
    THEN ScanThreadDicts(thread_dicts, i + 1, earliest, author_id)
    ELSE ScanThreadDicts(thread_dicts, i + 1,
             ScanCommentDicts(thread_dicts[i].comments, 1, earliest, author_id),
             author_id)

\* first_non_author_comment_time(client, repo_id, pull_request), the client
\* giving thread_dicts
FirstNonAuthorCommentTime(pull_request, thread_dicts) ==
    IF ~pull_request.pullRequestId.has THEN None
    ELSE ScanThreadDicts(thread_dicts, 1, None, pull_request.created_by_id)

\* (pull_request.get("status") or "").lower()
StatusLower(status) ==
    IF ~status.has THEN ""
    ELSE IF status.v = "Completed" THEN "completed" ELSE status.v

\* Negative durations are left out.
Durations_NonNegative(durations, later, earlier) ==
    IF later - earlier < 0 THEN durations ELSE Append(durations, later - earlier)

\* dwell_seconds.append((first_response_at - created_at).total_seconds()),
\* and the same for completion_seconds
AppendDuration(durations, later, earlier) == Append(durations, later - earlier)

Kpis(dwell_seconds, completion_seconds) ==
    [kind |-> "returned", dwell_seconds |-> dwell_seconds,
     completion_seconds |-> completion_seconds]

\* One pass of `for pull_request in pull_requests` over pull_request, the
\* client giving thread_dicts: the two lists after it.
RepoKpisPass(kpis, pull_request, thread_dicts) ==
    IF ~pull_request.creationDate.has THEN kpis
    ELSE LET created_at == pull_request.creationDate.v
             first_response == FirstNonAuthorCommentTime(pull_request, thread_dicts)
             dwell_seconds ==
                 IF first_response.has
                 THEN AppendDuration(kpis.dwell_seconds, first_response.v, created_at)
                 ELSE kpis.dwell_seconds
             completion_seconds ==
                 IF StatusLower(pull_request.status) = "completed"
                    /\ pull_request.closedDate.has
                 THEN AppendDuration(kpis.completion_seconds,
                                     pull_request.closedDate.v, created_at)
                 ELSE kpis.completion_seconds
         IN  Kpis(dwell_seconds, completion_seconds)

\* compute_repo_kpis over pull_requests, threads[i] being what the client
\* gives for the i-th of them
RECURSIVE ComputeRepoKpisFrom(_, _, _, _)
ComputeRepoKpisFrom(pull_requests_, threads_, i, kpis) ==
    IF i > Len(pull_requests_) THEN kpis
    ELSE ComputeRepoKpisFrom(pull_requests_, threads_, i + 1,
             RepoKpisPass(kpis, pull_requests_[i], threads_[i]))
ComputeRepoKpis(pull_requests_, threads_) ==
    ComputeRepoKpisFrom(pull_requests_, threads_, 1, Kpis(<<>>, <<>>))

\* list_thread_comments decodes a payload
CallListThreadComments ==
    /\ kp_pc = "ready"
    /\ \E items \in SeqsUpTo(CommentItems, 2) :
           /\ raw_comments' = items
           /\ comments_listed' = DecodeComments(items, 1, <<>>)
    /\ kp_pc' = "list_thread_comments"
    /\ UNCHANGED <<kp_pull_requests, kp_index, kp_thread_comments, kp_result>>
    /\ UNCHANGED <<gjVars, lpVars, frtVars, ckVars, stVars, rnVars, rbVars, mgVars, mnVars>>

\* compute_repo_kpis is entered: list_pull_requests gives pull_requests_
CallComputeRepoKpis ==
    /\ kp_pc = "ready"
    /\ \E pull_requests_ \in SeqsUpTo(PullRequestDicts, MaxRepoPRs) :
           kp_pull_requests' = pull_requests_
    /\ kp_result' = Kpis(<<>>, <<>>)
    /\ kp_pc' = "loop"
    /\ UNCHANGED <<raw_comments, comments_listed, kp_index, kp_thread_comments>>
    /\ UNCHANGED <<gjVars, lpVars, frtVars, ckVars, stVars, rnVars, rbVars, mgVars, mnVars>>

\* one pass of the for loop, the client answering with thread_dicts
RepoKpisLoop ==
    /\ kp_pc = "loop"
    /\ kp_index <= Len(kp_pull_requests)
    /\ \E thread_dicts \in ThreadDictLists :
           /\ kp_thread_comments' = thread_dicts
           /\ kp_result' = RepoKpisPass(kp_result, kp_pull_requests[kp_index], thread_dicts)
    /\ kp_index' = kp_index + 1
    /\ UNCHANGED <<kp_pc, raw_comments, comments_listed, kp_pull_requests>>
    /\ UNCHANGED <<gjVars, lpVars, frtVars, ckVars, stVars, rnVars, rbVars, mgVars, mnVars>>

\* a client call of the pass raises: the exception leaves compute_repo_kpis
RepoKpisClientRaises ==
    /\ kp_pc = "loop"
    /\ kp_index <= Len(kp_pull_requests)
    /\ kp_pull_requests[kp_index].creationDate.has
    /\ kp_pull_requests[kp_index].pullRequestId.has
    /\ kp_pc' = "raised"
    /\ kp_result' = [kind |-> "HTTPError", dwell_seconds |-> <<>>,
                     completion_seconds |-> <<>>]
    /\ UNCHANGED <<raw_comments, comments_listed, kp_pull_requests, kp_index,
                   kp_thread_comments>>
    /\ UNCHANGED <<gjVars, lpVars, frtVars, ckVars, stVars, rnVars, rbVars, mgVars, mnVars>>

\* return dwell_seconds, completion_seconds
RepoKpisReturn ==
    /\ kp_pc = "loop"
    /\ kp_index > Len(kp_pull_requests)
    /\ kp_pc' = "returned"
    /\ UNCHANGED <<raw_comments, comments_listed, kp_pull_requests, kp_index,
                   kp_thread_comments, kp_result>>
    /\ UNCHANGED <<gjVars, lpVars, frtVars, ckVars, stVars, rnVars, rbVars, mgVars, mnVars>>

RepoKpisInit ==
    /\ GetJsonIdle
    /\ ListPRIdle
    /\ FirstResponseIdle
    /\ CollectIdle
    /\ st_pc = "idle"
    /\ StatsIdle
    /\ ResolveNameIdle
    /\ ResolveNamesIdle
    /\ MainGetIdle
    /\ MainIdle
    /\ kp_pc = "ready"
    /\ raw_comments = <<>>
    /\ comments_listed = NoComments
    /\ kp_pull_requests = <<>>
    /\ kp_index = 1
    /\ kp_thread_comments = <<>>
    /\ kp_result = NoKpis

RepoKpisNext ==
    \/ CallListThreadComments
    \/ CallComputeRepoKpis
    \/ RepoKpisLoop
    \/ RepoKpisClientRaises
    \/ RepoKpisReturn

SpecRepoKpis == RepoKpisInit /\ [][RepoKpisNext]_vars

-----------------------------------------------------------------------------
(* Claims about the comments that count, checked under SpecRepoKpis        *)

\* The items of raw_comments that have an author id, decoded, in order.
RECURSIVE WithAuthor(_)
WithAuthor(items) ==
    IF items = <<>> THEN <<>>
    ELSE LET item == Last(items)
             before == WithAuthor(SubSeq(items, 1, Len(items) - 1))
         IN  IF item.author_id.has /\ item.author_id.v # ""
             THEN Append(before,
                         [authorId |-> item.author_id.v,
                          publishedDate |->
                              IF item.publishedDate.has
                              THEN Some(item.publishedDate.v.local) ELSE None])
             ELSE before

\* The timestamps of the comments of thread_dicts that have a timestamp and
\* an author id, the author being another user than the pull request's.
CountingTimestamps(pull_request, thread_dicts) ==
    {c.timestamp.v :
        c \in {d \in UNION {{t.comments[j] : j \in 1..Len(t.comments)} :
                               t \in {thread_dicts[k] : k \in
                                        {m \in 1..Len(thread_dicts) : thread_dicts[m].id.has}}} :
                  /\ d.timestamp.has
                  /\ d.commenter_id.has
                  /\ d.commenter_id # pull_request.created_by_id}}

\* C22: a comment without author id never contributes to a dwell sample:
\* list_thread_comments of ado_client returns the comments that have one
\* (a comment without it is dropped, without an error, whatever else it
\* holds), and the pass of compute_repo_kpis over a pull request appends
\* the earliest timestamp among the comments that have a timestamp and an
\* author id other than the pull request's author, or nothing when there is
\* none.
C22_AuthorlessNeverCounts ==
    /\ []((/\ kp_pc = "list_thread_comments"
            /\ \A i \in 1..Len(raw_comments) :
                   Truthy(raw_comments[i].author_id) =>
                       raw_comments[i].publishedDate # Some(InvalidText)) =>
               comments_listed = [kind |-> "returned",
                                  comments |-> WithAuthor(raw_comments)])
    /\ [][kp_index' = kp_index + 1 =>
             LET pull_request == kp_pull_requests[kp_index]
                 counting == CountingTimestamps(pull_request, kp_thread_comments')
             IN  kp_result'.dwell_seconds =
                     IF \/ counting = {}
                        \/ ~pull_request.creationDate.has
                        \/ ~pull_request.pullRequestId.has
                     THEN kp_result.dwell_seconds
                     ELSE Append(kp_result.dwell_seconds,
                                 Earliest(counting) - pull_request.creationDate.v)]_vars

\* C23: compute_repo_kpis never records a negative duration.
C23_NoNegativeDuration ==
    /\ \A i \in 1..Len(kp_result.dwell_seconds) : kp_result.dwell_seconds[i] >= 0
    /\ \A i \in 1..Len(kp_result.completion_seconds) :
           kp_result.completion_seconds[i] >= 0



-----------------------------------------------------------------------------
(* main.main: the installed console script                                 *)

\* --repo-id and --repo-name are given at most this many times each.
MaxRepoArgs == 2

\* The repository ids in the order of sorted().
RepoIdOrder == <<"id-1", "id-2", "id-3">>
RepoRank(id) == CHOOSE i \in 1..Len(RepoIdOrder) : RepoIdOrder[i] = id

\* The largest id comes first.
NextRepoId_Descending(ids) ==
    CHOOSE id \in ids : \A other \in ids : RepoRank(other) <= RepoRank(id)

\* for repo_id in sorted(repo_ids): the id of the next pass, ids being the
\* ones that have not had theirs
NextRepoId(ids) ==
    CHOOSE id \in ids : \A other \in ids : RepoRank(id) <= RepoRank(other)

RepoIdArgs == SeqsUpTo({"id-1", "id-2", ""}, MaxRepoArgs)
RepoNameArgs == SeqsUpTo({ <<"a", "b">>, <<"x", "/", "B">>, <<"x">> }, MaxRepoArgs)

MainArgs ==
    [pat : BOOLEAN, repo_id : RepoIdArgs, repo_name : RepoNameArgs]

\* The repositories of the project, as list_repositories gives them.
MainListings ==
    { <<>>,
      <<RepoItem("id-2", <<"A", "b">>), RepoItem("id-1", <<"b">>)>>,
      <<RepoItem("id-3", <<"a", "b">>), RepoItem("", <<"b">>)>> }

\* The body of `for name in repo_names` of resolve_repo_names_to_ids
ResolveNameInto(repos_by_name_, resolved_, name) ==
    LET normalized_name == Strip(name)
        repo_id == Get(repos_by_name_, Lower(normalized_name))
        fallback_id == Get(repos_by_name_, Lower(FallbackName(normalized_name)))
    IN  IF normalized_name = <<>> THEN resolved_
        ELSE IF repo_id # "" THEN Put(resolved_, normalized_name, repo_id)
        ELSE IF fallback_id # "" THEN Put(resolved_, normalized_name, fallback_id)
        ELSE resolved_

\* client.resolve_repo_names_to_ids(args.repo_name, ...), from name i on
RECURSIVE ResolveRepoNamesToIds(_, _, _, _)
ResolveRepoNamesToIds(names, i, repos_by_name_, resolved_) ==
    IF i > Len(names) THEN resolved_
    ELSE ResolveRepoNamesToIds(names, i + 1, repos_by_name_,
             ResolveNameInto(repos_by_name_, resolved_, names[i]))

\* {repo_id for repo_id in args.repo_id if repo_id}
GivenRepoIds(repo_id_args) ==
    {repo_id_args[i] : i \in {j \in 1..Len(repo_id_args) : repo_id_args[j] # ""}}

\* resolved_repo_ids.values()
Values(d) == {d[k] : k \in DOMAIN d}

\* {repo["id"] for repo in repositories if repo.get("id")}
AllRepoIds(listing) ==
    {listing[i].id : i \in {j \in 1..Len(listing) : listing[j].id # ""}}

\* What the service holds for a repository: one pull request, created at
\* 0 and completed at ten times the rank of the id, with a reviewer's
\* comment at the rank (none in repository id-3).
RepoPullRequests(repo_id) ==
    <<PullRequestDict(Some(7), Some("author"), Some(0), Some("completed"),
                      Some(10 * RepoRank(repo_id)))>>
RepoThreads(repo_id) ==
    IF RepoRank(repo_id) = 3 THEN << <<>> >>
    ELSE << <<ThreadDict(Some(1),
                <<CommentDict(Some("reviewer"), Some(RepoRank(repo_id)))>>)>> >>

\* The exceptions a client call can end with: requests.HTTPError for a 401
\* and for a 500 that did not go away, requests.ConnectionError.
MainExceptions == {"HTTPError 401", "HTTPError 500", "ConnectionError"}

MainOthers ==
    UNCHANGED <<gjVars, lpVars, frtVars, ckVars, stVars, rnVars, rbVars, mgVars, kpVars>>

\* if not args.pat: print(..., file=sys.stderr); return 2
MainNoPat ==
    /\ mn_pc = "start"
    /\ ~args.pat
    /\ stderr' = Append(stderr, "ERROR: PAT required via --pat or ADO_PAT environment variable.")
    /\ exit_code' = Some(2)
    /\ mn_pc' = "exited"
    /\ UNCHANGED <<args, mn_repositories, resolved_repo_ids, repo_ids, processed,
                   all_dwell, all_completion, escaped, mn_requests>>
    /\ MainOthers

\* if args.repo_name: resolved_repo_ids = client.resolve_repo_names_to_ids(...);
\* repo_ids = {...}; repo_ids.update(resolved_repo_ids.values())
MainResolvesNames ==
    /\ mn_pc = "start"
    /\ args.pat
    /\ args.repo_name # <<>>
    /\ mn_requests' = mn_requests + 1
    /\ \E resolved_ \in {ResolveRepoNamesToIds(args.repo_name, 1,
                              ReposByName(mn_repositories, EmptyDict), EmptyDict)} :
           /\ resolved_repo_ids' = resolved_
           /\ repo_ids' = GivenRepoIds(args.repo_id) \cup Values(resolved_)
    /\ mn_pc' = "select"
    /\ UNCHANGED <<args, mn_repositories, processed, all_dwell, all_completion,
                   exit_code, stderr, escaped>>
    /\ MainOthers

\* args.repo_name is empty: repo_ids = {...} of args.repo_id alone
MainHasNoNames ==
    /\ mn_pc = "start"
    /\ args.pat
    /\ args.repo_name = <<>>
    /\ repo_ids' = GivenRepoIds(args.repo_id)
    /\ mn_pc' = "select"
    /\ UNCHANGED <<args, mn_repositories, resolved_repo_ids, processed, all_dwell,
                   all_completion, exit_code, stderr, escaped, mn_requests>>
    /\ MainOthers

\* if not repo_ids: repositories = client.list_repositories(...); repo_ids = {...}
MainListsAllRepos ==
    /\ mn_pc = "select"
    /\ repo_ids = {}
    /\ mn_requests' = mn_requests + 1
    /\ repo_ids' = AllRepoIds(mn_repositories)
    /\ mn_pc' = "repos"
    /\ UNCHANGED <<args, mn_repositories, resolved_repo_ids, processed, all_dwell,
                   all_completion, exit_code, stderr, escaped>>
    /\ MainOthers

\* repo_ids is not empty: on to the for loop
MainHasRepos ==
    /\ mn_pc = "select"
    /\ repo_ids # {}
    /\ mn_pc' = "repos"
    /\ UNCHANGED <<args, mn_repositories, resolved_repo_ids, repo_ids, processed,
                   all_dwell, all_completion, exit_code, stderr, escaped, mn_requests>>
    /\ MainOthers

Remaining == repo_ids \ {processed[i] : i \in 1..Len(processed)}

\* one pass of `for repo_id in sorted(repo_ids)`: compute_repo_kpis, extend;
\* the service answers for the repositories of the project
MainRepoPass ==
    /\ mn_pc = "repos"
    /\ Remaining # {}
    /\ NextRepoId(Remaining) \in AllRepoIds(mn_repositories)
    /\ \E repo_id \in {NextRepoId(Remaining)} :
       \E kpis \in {ComputeRepoKpis(RepoPullRequests(repo_id), RepoThreads(repo_id))} :
           /\ processed' = Append(processed, repo_id)
           /\ all_dwell' = all_dwell \o kpis.dwell_seconds
           /\ all_completion' = all_completion \o kpis.completion_seconds
    /\ mn_requests' = mn_requests + 1
    /\ UNCHANGED <<mn_pc, args, mn_repositories, resolved_repo_ids, repo_ids,
                   exit_code, stderr, escaped>>
    /\ MainOthers

\* the loop is over: the summary is printed; return 0
MainReturns ==
    /\ mn_pc = "repos"
    /\ Remaining = {}
    /\ exit_code' = Some(0)
    /\ mn_pc' = "exited"
    /\ UNCHANGED <<args, mn_repositories, resolved_repo_ids, repo_ids, processed,
                   all_dwell, all_completion, stderr, escaped, mn_requests>>
    /\ MainOthers

\* A client call (resolve_repo_names_to_ids, list_repositories or one of
\* compute_repo_kpis) raises: main has no try, the exception leaves it.
MainClientRaises ==
    /\ \/ mn_pc = "start" /\ args.pat /\ args.repo_name # <<>>
       \/ mn_pc = "select" /\ repo_ids = {}
       \/ mn_pc = "repos" /\ Remaining # {}
    /\ mn_requests' = mn_requests + 1
    /\ \E e \in MainExceptions : escaped' = e
    /\ mn_pc' = "escaped"
    /\ UNCHANGED <<args, mn_repositories, resolved_repo_ids, repo_ids, processed,
                   all_dwell, all_completion, exit_code, stderr>>
    /\ MainOthers

MainInit ==
    /\ GetJsonIdle
    /\ ListPRIdle
    /\ FirstResponseIdle
    /\ CollectIdle
    /\ st_pc = "idle"
    /\ StatsIdle
    /\ ResolveNameIdle
    /\ ResolveNamesIdle
    /\ MainGetIdle
    /\ RepoKpisIdle
    /\ mn_pc = "start"
    /\ args \in MainArgs
    /\ mn_repositories \in MainListings
    /\ resolved_repo_ids = EmptyDict
    /\ repo_ids = {}
    /\ processed = <<>>
    /\ all_dwell = <<>>
    /\ all_completion = <<>>
    /\ exit_code = None
    /\ stderr = <<>>
    /\ escaped = "none"
    /\ mn_requests = 0

MainNext ==
    \/ MainNoPat
    \/ MainResolvesNames
    \/ MainHasNoNames
    \/ MainListsAllRepos
    \/ MainHasRepos
    \/ MainRepoPass
    \/ MainReturns
    \/ MainClientRaises

SpecMain == MainInit /\ [][MainNext]_vars



\* The ids the command line asks for: the non-empty --repo-id values and the
\* ids the --repo-name values resolved to.
RequestedRepoIds ==
    {args.repo_id[i] : i \in {j \in 1..Len(args.repo_id) : args.repo_id[j] # ""}}
        \cup {resolved_repo_ids[k] : k \in DOMAIN resolved_repo_ids}

\* The repositories of the project that have an id.
ListedRepoIds ==
    {mn_repositories[i].id : i \in {j \in 1..Len(mn_repositories) : mn_repositories[j].id # ""}}

\* The lists of the repositories of ids, in that order, one after the other.
RECURSIVE DwellOf(_)
DwellOf(ids) ==
    IF ids = <<>> THEN <<>>
    ELSE ComputeRepoKpis(RepoPullRequests(Head(ids)), RepoThreads(Head(ids))).dwell_seconds
             \o DwellOf(Tail(ids))
RECURSIVE CompletionOf(_)
CompletionOf(ids) ==
    IF ids = <<>> THEN <<>>
    ELSE ComputeRepoKpis(RepoPullRequests(Head(ids)), RepoThreads(Head(ids))).completion_seconds
             \o CompletionOf(Tail(ids))

\* C21: the entry point maps every outcome to an exit code and lets no
\* exception escape: 0 on success, 2 without a credential (an error on the
\* error stream, no request issued), 3 on an authentication error, 4 on an
\* upstream API error at any step, 1 on any other exception.
C21_EveryOutcomeAnExitCode ==
    /\ mn_pc # "escaped"
    /\ escaped = "HTTPError 401" => exit_code = Some(3)
    /\ escaped = "HTTPError 500" => exit_code = Some(4)
    /\ escaped = "ConnectionError" => exit_code = Some(1)
    /\ mn_pc = "exited" /\ args.pat /\ escaped = "none" => exit_code = Some(0)
    /\ mn_pc # "start" /\ ~args.pat =>
           exit_code = Some(2) /\ stderr # <<>> /\ mn_requests = 0

\* C29: an empty set of requested ids after resolution does not stop the
\* run, every repository of the project is listed and processed; otherwise
\* exactly the distinct requested ids are processed, each once, in ascending
\* order; the cross-repository lists are the per-repository lists one after
\* the other in that order.
C29_AllOrRequestedAscending ==
    /\ [](mn_pc = "exited" /\ exit_code = Some(0) =>
            /\ {processed[i] : i \in 1..Len(processed)} =
                   IF RequestedRepoIds = {} THEN ListedRepoIds ELSE RequestedRepoIds
            /\ \A i \in 1..Len(processed) : \A j \in 1..Len(processed) :
                   i < j => RepoRank(processed[i]) < RepoRank(processed[j])
            /\ all_dwell = DwellOf(processed)
            /\ all_completion = CompletionOf(processed))
    /\ [][mn_pc = "select" /\ RequestedRepoIds = {} =>
              /\ mn_requests' = mn_requests + 1
              /\ exit_code' = None
              /\ mn_pc' = "repos" => repo_ids' = ListedRepoIds]_vars
    /\ [][mn_pc = "repos" /\ mn_pc' = "repos" =>
              /\ Len(processed') = Len(processed) + 1
              /\ \A i \in 1..Len(processed) :
                     RepoRank(processed[i]) < RepoRank(processed'[Len(processed')])
              /\ all_dwell' = DwellOf(processed')
              /\ all_completion' = CompletionOf(processed')]_vars

\* Names were given, none resolved, no --repo-id: the two repositories of
\* the project are processed, id-1 before id-2.
C29_Witness ==
    /\ mn_pc = "exited"
    /\ exit_code = Some(0)
    /\ args.repo_name = << <<"x">> >>
    /\ args.repo_id = <<>>
    /\ resolved_repo_ids = EmptyDict
    /\ processed = <<"id-1", "id-2">>
    /\ Len(all_dwell) = 2
    /\ Len(all_completion) = 2
    /\ all_dwell[1] < all_dwell[2]
    /\ all_completion[1] < all_completion[2]


=============================================================================
